---- MODULE Spec2Model ----
(***************************************************************************)
(* Backtesting engine of the stock dashboard: the Time-Series-Momentum     *)
(* pipeline (calculations/momentum_strategy.py), the RSI mean-reversion    *)
(* pipeline (calculations/rsi_mean_reversion.py) and the SMA/LETF signal   *)
(* generator (stock_dashboard-2/strategies/sma_letf_strategy.py).          *)
(*                                                                         *)
(* Numbers.  A pandas float is a fixed-point integer with SCALE units per  *)
(* 1.0 (a return of 10% is 100); NaN is the value NaN, and every operator  *)
(* propagates it the way pandas does.  Prices are integers.  A date is the *)
(* position of the bar in the price series (1 is the first bar).           *)
(* A DataFrame is a record of equally long columns; an attribute that is   *)
(* None in Python holds the value None.                                    *)
(***************************************************************************)
EXTENDS Integers, Sequences, FiniteSets, TLC

VARIABLES
    strategy,       \* the class the caller constructed: "TSM", "RSI", "SMA", "OPT" or "SC"
    prices,         \* the price series (closing prices) handed to calculate_signals;
                    \* for SMALETFStrategy the frames yf.download returns for the
                    \* configured tickers and period
    params,         \* self.params / self.config of the constructed strategy object
    tsm_signals,    \* TimeSeriesMomentum._signals
    tsm_returns,    \* TimeSeriesMomentum._returns
    rsi_signals,    \* RSIMeanReversion._signals
    rsi_trades,     \* RSIMeanReversion._trades
    rsi_returns,    \* RSIMeanReversion._returns
    sma_signal_data,\* SMALETFStrategy.signal_data
    sma_trade_data, \* SMALETFStrategy.trade_data
    sma_backtest_results, \* SMALETFStrategy.backtest_results
    sma_config_created,   \* the StrategyConfig behind self.config as its creator built it
    CONFIGS,        \* the presets of sma_letf_strategy.py, shared by the process
    opt_results,    \* RSIParameterOptimizer.results
    opt_results_df, \* RSIParameterOptimizer.results_df
    opt_best_params,  \* RSIParameterOptimizer.best_params
    opt_best_metrics, \* RSIParameterOptimizer.best_metrics
    opt_call,       \* param_grid and optimize_metric of the last run_optimization call
    opt_runs,       \* run_optimization calls made on the optimizer: 0, 1 or 2 for more
    sc_scenarios,   \* ScenarioComparison.scenarios, a dict in insertion order
    sc_results,     \* ScenarioComparison.results, a dict in insertion order
    sc_computed_from, \* for each key of results, the parameters its metrics were computed with
    last_call,      \* name of the method called last ("init" after construction)
    outcome,        \* "ok" when the last call returned, "ValueError" when it raised
    result          \* the value the last call returned (None when it raised)

vars == <<strategy, prices, params, tsm_signals, tsm_returns, rsi_signals,
          rsi_trades, rsi_returns, sma_signal_data, sma_trade_data,
          sma_backtest_results, sma_config_created, CONFIGS,
          opt_results, opt_results_df, opt_best_params, opt_best_metrics, opt_call,
          opt_runs, sc_scenarios, sc_results, sc_computed_from,
          last_call, outcome, result>>

tsm_vars == <<tsm_signals, tsm_returns>>
rsi_vars == <<rsi_signals, rsi_trades, rsi_returns>>
sma_vars == <<sma_signal_data, sma_trade_data, sma_backtest_results,
              sma_config_created, CONFIGS>>
opt_vars == <<opt_results, opt_results_df, opt_best_params, opt_best_metrics, opt_call,
              opt_runs>>
sc_vars == <<sc_scenarios, sc_results, sc_computed_from>>

(***************************************************************************)
(* Numeric helpers                                                         *)
(***************************************************************************)
SCALE == 1000
NaN == -999999
None == [none |-> TRUE]

IsNaN(x) == x = NaN
Abs(x) == IF x < 0 THEN -x ELSE x
Sign(x) == IF x > 0 THEN 1 ELSE IF x < 0 THEN -1 ELSE 0
Min2(a, b) == IF a <= b THEN a ELSE b
Max2(a, b) == IF a >= b THEN a ELSE b

\* a * b of two fixed-point numbers
FMul(a, b) == IF IsNaN(a) \/ IsNaN(b) THEN NaN ELSE (a * b) \div SCALE
\* a / b of two fixed-point numbers (b # 0)
FDiv(a, b) == IF IsNaN(a) \/ IsNaN(b) THEN NaN ELSE (a * SCALE) \div b
\* Series.fillna(0) on one value
FillNa0(x) == IF IsNaN(x) THEN 0 ELSE x

RECURSIVE ISqrtBetween(_, _, _)
ISqrtBetween(x, lo, hi) ==
    IF lo >= hi THEN lo
    ELSE LET mid == (lo + hi + 1) \div 2
         IN IF mid * mid <= x THEN ISqrtBetween(x, mid, hi)
            ELSE ISqrtBetween(x, lo, mid - 1)
\* floor of the square root of x >= 0
ISqrt(x) ==
    IF x = 0 THEN 0
    ELSE IF x < 1000000 THEN ISqrtBetween(x, 1, 1000)
    ELSE ISqrtBetween(x, 1000, 46340)

RECURSIVE SumSeq(_)
SumSeq(s) == IF s = <<>> THEN 0 ELSE Head(s) + SumSeq(Tail(s))

(***************************************************************************)
(* pandas column operators                                                 *)
(***************************************************************************)
\* Series.pct_change(periods=k): close[i]/close[i-k] - 1
PctChange(close, k) ==
    [i \in 1..Len(close) |->
        IF i - k < 1 THEN NaN
        ELSE ((close[i] - close[i - k]) * SCALE) \div close[i - k]]

\* mutation of Shift1: the column is used unshifted
Shift1Unshifted(col) == col

\* Series.shift(1)
Shift1(col) == [i \in 1..Len(col) |-> IF i = 1 THEN NaN ELSE col[i - 1]]

\* Series.rolling(window=w).std() * sqrt(252): sample standard deviation
\* (ddof = 1) of the last w values, NaN while the window holds a NaN or is short
RollingStdAnnualized(col, w) ==
    [i \in 1..Len(col) |->
        IF i < w \/ w < 2 \/ (\E j \in (i - w + 1)..i : IsNaN(col[j])) THEN NaN
        ELSE LET win == [j \in 1..w |-> col[i - w + j]]
                 s1  == SumSeq(win)
                 s2  == SumSeq([j \in 1..w |-> win[j] * win[j]])
                 v   == w * s2 - s1 * s1
             IN ISqrt((252 * v) \div (w * (w - 1)))]

\* Series.clip(lower=lo)
ClipLower(col, lo) ==
    [i \in 1..Len(col) |-> LET x == col[i] IN IF IsNaN(x) THEN NaN ELSE Max2(x, lo)]

\* Series.cummax(): row i holds the largest value of rows 1..i
RECURSIVE CumMaxLoop(_, _, _)
CumMaxLoop(col, i, res) ==
    IF i > Len(col) THEN res
    ELSE CumMaxLoop(col, i + 1,
                    Append(res, IF i = 1 THEN col[1] ELSE Max2(res[i - 1], col[i])))
CumMax(col) == CumMaxLoop(col, 1, <<>>)

\* (1 + col.fillna(0)).cumprod() * 100
RECURSIVE CumProdLoop(_, _, _, _)
CumProdLoop(col, i, prod, res) ==
    IF i > Len(col) THEN res
    ELSE LET next == (prod * (SCALE + FillNa0(col[i]))) \div SCALE
         IN CumProdLoop(col, i + 1, next, Append(res, next * 100))
\* mutation of CumProd100: the curve is not indexed to 100
CumProdUnindexed(col) ==
    LET c == CumProdLoop(col, 1, SCALE, <<>>)
    IN [i \in 1..Len(c) |-> c[i] \div 100]

CumProd100(col) == CumProdLoop(col, 1, SCALE, <<>>)

(***************************************************************************)
(* Time-Series Momentum: calculations/momentum_strategy.py                 *)
(***************************************************************************)
TRADING_DAYS_PER_MONTH == 21

\* mutation of RawSignal: an undefined momentum counts as positive in long_cash
RawSignalWarmupLong(momentum, position_type) ==
    [i \in 1..Len(momentum) |->
        IF position_type = "long_cash"
        THEN (IF IsNaN(momentum[i]) \/ momentum[i] > 0 THEN 1 ELSE 0)
        ELSE (IF IsNaN(momentum[i]) THEN NaN ELSE Sign(momentum[i]))]

\* np.where(momentum > 0, 1, 0) / np.sign(momentum)
RawSignal(momentum, position_type) ==
    [i \in 1..Len(momentum) |->
        IF position_type = "long_cash"
        THEN (IF ~IsNaN(momentum[i]) /\ momentum[i] > 0 THEN 1 ELSE 0)
        ELSE (IF IsNaN(momentum[i]) THEN NaN ELSE Sign(momentum[i]))]

\* mutation of HoldingStep: a change is accepted one bar early
HoldingStepEarly(signals, h, i, st) ==
    LET signal == signals[i + 1]
    IN IF IsNaN(signal)
       THEN [st EXCEPT !.res = Append(@, signal)]
       ELSE LET accept == (i = 0 \/ (i - st.last_change_idx) >= h - 1)
                          /\ signal # st.last_signal
                lc == IF accept THEN i ELSE st.last_change_idx
                ls == IF accept THEN signal ELSE st.last_signal
            IN [last_change_idx |-> lc, last_signal |-> ls, res |-> Append(st.res, ls)]

\* one iteration of the loop of _apply_holding_period, for the 0-based row i;
\* st holds last_change_idx, last_signal and the rows of result written so far
HoldingStep(signals, h, i, st) ==
    LET signal == signals[i + 1]
    IN IF IsNaN(signal)
       THEN [st EXCEPT !.res = Append(@, signal)]
       ELSE LET accept == (i = 0 \/ (i - st.last_change_idx) >= h)
                          /\ signal # st.last_signal
                lc == IF accept THEN i ELSE st.last_change_idx
                ls == IF accept THEN signal ELSE st.last_signal
            IN [last_change_idx |-> lc, last_signal |-> ls, res |-> Append(st.res, ls)]

\* the iterations lo..hi of the loop, in order: the first half of the range
\* runs to its end, then the second half continues from its state
RECURSIVE HoldingLoop(_, _, _, _, _)
HoldingLoop(signals, h, lo, hi, st) ==
    IF lo > hi THEN st
    ELSE IF lo = hi THEN HoldingStep(signals, h, lo, st)
    ELSE LET mid == (lo + hi) \div 2
         IN CHOOSE last \in {HoldingLoop(signals, h, mid + 1, hi, first) :
                               first \in {HoldingLoop(signals, h, lo, mid, st)}} : TRUE

\* TimeSeriesMomentum._apply_holding_period
ApplyHoldingPeriod(signals, h) ==
    IF h <= 1 THEN signals
    ELSE HoldingLoop(signals, h, 0, Len(signals) - 1,
                     [last_change_idx |-> 0, last_signal |-> 0, res |-> <<>>]).res

\* mutation of PositionSize: the scaled size is not capped at 2.0
PositionSizeUncapped(volatility, signal, p) ==
    [i \in 1..Len(signal) |->
        IF p.enable_volatility_scaling
        THEN LET vol == volatility[i]
             IN IF IsNaN(vol) \/ IsNaN(signal[i]) THEN NaN
                ELSE FDiv(p.volatility_target, vol) * Abs(signal[i])
        ELSE (IF IsNaN(signal[i]) THEN NaN ELSE Abs(signal[i]) * SCALE)]

\* position_size column before the shift
PositionSize(volatility, signal, p) ==
    [i \in 1..Len(signal) |->
        IF p.enable_volatility_scaling
        THEN LET vol == volatility[i]
             IN IF IsNaN(vol) \/ IsNaN(signal[i]) THEN NaN
                ELSE Min2(FDiv(p.volatility_target, vol), 2 * SCALE) * Abs(signal[i])
        ELSE (IF IsNaN(signal[i]) THEN NaN ELSE Abs(signal[i]) * SCALE)]

\* TimeSeriesMomentum.calculate_signals (start_date = end_date = None), for a
\* non-empty price series
TSMSignalFrame(pr, p) ==
    LET close      == pr
        returns    == PctChange(close, 1)
        momentum   == PctChange(close, p.lookback_months * TRADING_DAYS_PER_MONTH)
        volatility == ClipLower(RollingStdAnnualized(returns, p.volatility_window),
                                (5 * SCALE) \div 100)
        held       == ApplyHoldingPeriod(RawSignal(momentum, p.position_type),
                                         p.holding_period_days)
        size       == PositionSize(volatility, held, p)
    IN [close |-> close, returns |-> returns, momentum |-> momentum,
        volatility |-> volatility,
        signal |-> Shift1(held), position_size |-> Shift1(size)]

\* signal * position_size * returns, or signal * returns
StrategyReturn(sig, p) ==
    [i \in 1..Len(sig.close) |->
        IF IsNaN(sig.signal[i]) \/ IsNaN(sig.returns[i]) THEN NaN
        ELSE IF p.enable_volatility_scaling
        THEN (IF IsNaN(sig.position_size[i]) THEN NaN
              ELSE FMul(sig.signal[i] * sig.position_size[i], sig.returns[i]))
        ELSE sig.signal[i] * sig.returns[i]]

\* mutation of Drawdown: the distance to the peak with the sign reversed
DrawdownSignReversed(cumulative) ==
    LET peak == CumMax(cumulative)
    IN [i \in 1..Len(cumulative) |-> FDiv(peak[i] - cumulative[i], peak[i])]

\* peak and drawdown columns: (cumulative - peak) / peak
Drawdown(cumulative) ==
    LET peak == CumMax(cumulative)
    IN [i \in 1..Len(cumulative) |-> FDiv(cumulative[i] - peak[i], peak[i])]

\* TimeSeriesMomentum.calculate_strategy_returns on a signal frame
TSMReturnsFrame(sig, p) ==
    LET strategy_return == StrategyReturn(sig, p)
        cumulative      == CumProd100(strategy_return)
    IN [benchmark_return     |-> sig.returns,
        strategy_return      |-> strategy_return,
        cumulative_strategy  |-> cumulative,
        cumulative_benchmark |-> CumProd100(sig.returns),
        peak                 |-> CumMax(cumulative),
        drawdown             |-> Drawdown(cumulative)]

\* min of a non-empty column
ColMin(col) == CHOOSE m \in {col[i] : i \in 1..Len(col)} :
                   \A i \in 1..Len(col) : m <= col[i]

\* drawdown < 0 on one row; a comparison with NaN is False
InDrawdown(x) == ~IsNaN(x) /\ x < 0

\* (~in_drawdown).cumsum(): the group of each row
RECURSIVE DDGroupsLoop(_, _, _, _)
DDGroupsLoop(drawdown, i, count, res) ==
    IF i > Len(drawdown) THEN res
    ELSE LET c == IF InDrawdown(drawdown[i]) THEN count ELSE count + 1
         IN DDGroupsLoop(drawdown, i + 1, c, Append(res, c))

\* in_drawdown.groupby(dd_groups).sum(): drawdown rows per group
RECURSIVE DDLengthsLoop(_, _, _, _)
DDLengthsLoop(drawdown, dd_groups, i, sums) ==
    IF i > Len(drawdown) THEN sums
    ELSE DDLengthsLoop(drawdown, dd_groups, i + 1,
            IF InDrawdown(drawdown[i])
            THEN [sums EXCEPT ![dd_groups[i]] = @ + 1]
            ELSE sums)

\* mutation of MaxDDDuration: a drawdown that has not recovered by the last
\* row is not counted
MaxDDDurationRecovered(drawdown) ==
    LET n == Len(drawdown)
        dd_groups == DDGroupsLoop(drawdown, 1, 0, <<>>)
        dd_lengths == DDLengthsLoop(drawdown, dd_groups, 1, [g \in 0..n |-> 0])
        closed == {g \in 0..n : ~(InDrawdown(drawdown[n]) /\ g = dd_groups[n])}
    IN IF \A i \in 1..n : ~InDrawdown(drawdown[i]) THEN 0
       ELSE CHOOSE m \in {dd_lengths[g] : g \in closed} :
                \A g \in closed : dd_lengths[g] <= m

\* TimeSeriesMomentum._calculate_max_dd_duration: rows are grouped by the
\* running count of rows that are not in drawdown; the longest group wins
MaxDDDuration(drawdown) ==
    LET n == Len(drawdown)
        dd_groups == DDGroupsLoop(drawdown, 1, 0, <<>>)
        dd_lengths == DDLengthsLoop(drawdown, dd_groups, 1, [g \in 0..n |-> 0])
    IN IF \A i \in 1..n : ~InDrawdown(drawdown[i]) THEN 0
       ELSE CHOOSE m \in {dd_lengths[g] : g \in 0..n} :
                \A g \in 0..n : dd_lengths[g] <= m

\* a ratio num/den kept exact; 0 is 0/1
Ratio(num, den) == [num |-> num, den |-> den]
\* signals_df['signal'].diff().fillna(0) != 0 at row i
SignalChanged(signal, i) ==
    i > 1 /\ ~IsNaN(signal[i]) /\ ~IsNaN(signal[i - 1]) /\ signal[i] # signal[i - 1]

\* mutation of TradeStats: winning days are divided by the number of trades
TradeStatsPerTrade(sig) ==
    IF sig = None THEN [win_rate |-> Ratio(0, 1), num_trades |-> 0, avg_holding |-> Ratio(0, 1)]
    ELSE LET n == Len(sig.signal)
             num_trades == Cardinality({i \in 1..n : SignalChanged(sig.signal, i)})
             winning_days == Cardinality({i \in 1..n :
                                ~IsNaN(sig.signal[i]) /\ ~IsNaN(sig.returns[i])
                                /\ sig.returns[i] * sig.signal[i] > 0})
             total_position_days == Cardinality({i \in 1..n : sig.signal[i] # 0})
         IN IF num_trades = 0
            THEN [win_rate |-> Ratio(0, 1), num_trades |-> 0, avg_holding |-> Ratio(0, 1)]
            ELSE [win_rate |-> Ratio(winning_days, num_trades),
                  num_trades |-> num_trades,
                  avg_holding |-> Ratio(total_position_days, num_trades)]

\* TimeSeriesMomentum._calculate_trade_stats
TradeStats(sig) ==
    IF sig = None THEN [win_rate |-> Ratio(0, 1), num_trades |-> 0, avg_holding |-> Ratio(0, 1)]
    ELSE LET n == Len(sig.signal)
             num_trades == Cardinality({i \in 1..n : SignalChanged(sig.signal, i)})
             winning_days == Cardinality({i \in 1..n :
                                ~IsNaN(sig.signal[i]) /\ ~IsNaN(sig.returns[i])
                                /\ sig.returns[i] * sig.signal[i] > 0})
             \* NaN != 0 is True in pandas
             total_position_days == Cardinality({i \in 1..n : sig.signal[i] # 0})
         IN IF num_trades = 0
            THEN [win_rate |-> Ratio(0, 1), num_trades |-> 0, avg_holding |-> Ratio(0, 1)]
            ELSE [win_rate |-> IF total_position_days > 0
                               THEN Ratio(winning_days, total_position_days)
                               ELSE Ratio(0, 1),
                  num_trades |-> num_trades,
                  avg_holding |-> Ratio(total_position_days, num_trades)]

\* TimeSeriesMomentum.calculate_performance_metrics on a returns frame; the
\* trade statistics come from the cached self._signals
TSMMetrics(ret, sig) ==
    LET n == Len(ret.cumulative_strategy)
        total_return == ret.cumulative_strategy[n] \div 100 - SCALE
        benchmark_total == ret.cumulative_benchmark[n] \div 100 - SCALE
        trades == TradeStats(sig)
    IN [total_return |-> total_return,
        max_drawdown |-> ColMin(ret.drawdown),
        max_drawdown_duration_days |-> MaxDDDuration(ret.drawdown),
        win_rate |-> trades.win_rate,
        num_trades |-> trades.num_trades,
        avg_holding_period |-> trades.avg_holding,
        benchmark_total_return |-> benchmark_total,
        excess_return |-> total_return - benchmark_total]

\* the loop of generate_trade_log; i is the 1-based row (= its date)
RECURSIVE TradeLogLoop(_, _, _, _, _, _)
TradeLogLoop(sig, i, current_position, entry_date, entry_price, trades) ==
    IF i > Len(sig.close) THEN trades
    ELSE LET signal == sig.signal[i]
         IN IF IsNaN(signal) \/ signal = current_position
            THEN TradeLogLoop(sig, i + 1, current_position, entry_date, entry_price, trades)
            ELSE LET closed ==
                        IF current_position # 0 /\ entry_date # 0
                        THEN Append(trades,
                               [entry_date |-> entry_date, exit_date |-> i,
                                entry_price |-> entry_price, exit_price |-> sig.close[i],
                                direction |-> IF current_position > 0 THEN "Long" ELSE "Short",
                                return |-> (((sig.close[i] - entry_price) * SCALE)
                                              \div entry_price) * current_position,
                                holding_days |-> i - entry_date])
                        ELSE trades
                     ed == IF signal # 0 THEN i ELSE entry_date
                     ep == IF signal # 0 THEN sig.close[i] ELSE entry_price
                 IN TradeLogLoop(sig, i + 1, signal, ed, ep, closed)

\* mutation of TSMTradeLog: a reversal keeps the entry of the position it closes
RECURSIVE TradeLogLoopStaleEntry(_, _, _, _, _, _)
TradeLogLoopStaleEntry(sig, i, current_position, entry_date, entry_price, trades) ==
    IF i > Len(sig.close) THEN trades
    ELSE LET signal == sig.signal[i]
         IN IF IsNaN(signal) \/ signal = current_position
            THEN TradeLogLoopStaleEntry(sig, i + 1, current_position, entry_date,
                                        entry_price, trades)
            ELSE LET closed ==
                        IF current_position # 0 /\ entry_date # 0
                        THEN Append(trades,
                               [entry_date |-> entry_date, exit_date |-> i,
                                entry_price |-> entry_price, exit_price |-> sig.close[i],
                                direction |-> IF current_position > 0 THEN "Long" ELSE "Short",
                                return |-> (((sig.close[i] - entry_price) * SCALE)
                                              \div entry_price) * current_position,
                                holding_days |-> i - entry_date])
                        ELSE trades
                     fresh == signal # 0 /\ current_position = 0
                     ed == IF fresh THEN i ELSE entry_date
                     ep == IF fresh THEN sig.close[i] ELSE entry_price
                 IN TradeLogLoopStaleEntry(sig, i + 1, signal, ed, ep, closed)
TSMTradeLogStaleEntry(sig) == TradeLogLoopStaleEntry(sig, 1, 0, 0, 0, <<>>)

\* TimeSeriesMomentum.generate_trade_log on a signal frame (entry_date 0 is None)
TSMTradeLog(sig) == TradeLogLoop(sig, 1, 0, 0, 0, <<>>)

(***************************************************************************)
(* RSI mean reversion: calculations/rsi_mean_reversion.py                  *)
(***************************************************************************)
\* Series.rolling(window=w).mean() of an integer column, in fixed point
RollingMean(col, w) ==
    [i \in 1..Len(col) |->
        IF i < w THEN NaN
        ELSE (SumSeq([j \in 1..w |-> col[i - w + j]]) * SCALE) \div w]

\* Series.rolling(window=w).std() of an integer column (ddof = 1), in fixed point
RollingStd(col, w) ==
    [i \in 1..Len(col) |->
        IF i < w \/ w < 2 THEN NaN
        ELSE LET win == [j \in 1..w |-> col[i - w + j]]
                 s1  == SumSeq(win)
                 s2  == SumSeq([j \in 1..w |-> win[j] * win[j]])
                 v   == w * s2 - s1 * s1
             IN ISqrt((v * SCALE * SCALE) \div (w * (w - 1)))]

\* gain / loss columns of _calculate_rsi: delta.where(delta > 0, 0.0); the NaN
\* delta of the first row becomes 0.0
Gain(pr) == [i \in 1..Len(pr) |->
                IF i > 1 /\ pr[i] - pr[i - 1] > 0 THEN (pr[i] - pr[i - 1]) * SCALE ELSE 0]
Loss(pr) == [i \in 1..Len(pr) |->
                IF i > 1 /\ pr[i] - pr[i - 1] < 0 THEN (pr[i - 1] - pr[i]) * SCALE ELSE 0]

\* avg_gain / avg_loss: the simple mean of the first `period` rows, then
\* Wilder's recurrence (prev * (period - 1) + x) / period from row period on
RECURSIVE WilderAverage(_, _, _)
WilderAverage(x, period, i) ==
    IF i < period THEN NaN
    ELSE IF i = period THEN SumSeq(SubSeq(x, 1, period)) \div period
    ELSE (WilderAverage(x, period, i - 1) * (period - 1) + x[i]) \div period

\* RSIMeanReversion._calculate_rsi; a zero average loss gives NaN
CalculateRSI(pr, period) ==
    [i \in 1..Len(pr) |->
        LET avg_gain == WilderAverage(Gain(pr), period, i)
            avg_loss == WilderAverage(Loss(pr), period, i)
        IN IF IsNaN(avg_gain) \/ IsNaN(avg_loss) \/ avg_loss = 0 THEN NaN
           ELSE LET rs == FDiv(avg_gain, avg_loss)
                IN 100 * SCALE - FDiv(100 * SCALE, SCALE + rs)]

\* RSIMeanReversion.calculate_signals for a non-empty price series
RSISignalFrame(pr, p) ==
    LET n     == Len(pr)
        rsi   == CalculateRSI(pr, p.rsi_period)
        ma    == RollingMean(pr, p.ma_period)
        std   == RollingStd(pr, p.ma_period)
        upper == [i \in 1..n |-> IF IsNaN(ma[i]) \/ IsNaN(std[i]) THEN NaN
                                 ELSE ma[i] + FMul(p.std_dev_multiplier, std[i])]
        lower == [i \in 1..n |-> IF IsNaN(ma[i]) \/ IsNaN(std[i]) THEN NaN
                                 ELSE ma[i] - FMul(p.std_dev_multiplier, std[i])]
        long_condition  == [i \in 1..n |->
                               ~IsNaN(rsi[i]) /\ rsi[i] < p.rsi_oversold
                               /\ ~IsNaN(lower[i]) /\ pr[i] * SCALE < lower[i]]
        short_condition == [i \in 1..n |->
                               ~IsNaN(rsi[i]) /\ rsi[i] > p.rsi_overbought
                               /\ ~IsNaN(upper[i]) /\ pr[i] * SCALE > upper[i]]
        raw == [i \in 1..n |->
                   IF p.position_type \in {"short_only", "long_short"} /\ short_condition[i]
                   THEN -1
                   ELSE IF p.position_type \in {"long_only", "long_short"} /\ long_condition[i]
                   THEN 1
                   ELSE 0]
    IN [close |-> pr, returns |-> PctChange(pr, 1), rsi |-> rsi, ma |-> ma,
        std |-> std, upper_band |-> upper, lower_band |-> lower,
        long_condition |-> long_condition, short_condition |-> short_condition,
        raw_signal |-> raw]

\* mutation of PnlPct: the direction of the position is ignored
PnlPctLongOnly(current_price, entry_price, position) ==
    ((Abs(current_price - entry_price) * 100 * SCALE) \div entry_price)
        * Sign(current_price - entry_price)

\* ((current_price / entry_price) - 1) * position * 100, in fixed point
\* (rounded towards zero, so that a gain and the equal loss have one size)
PnlPct(current_price, entry_price, position) ==
    ((Abs(current_price - entry_price) * 100 * SCALE) \div entry_price)
        * Sign(current_price - entry_price) * position

\* one trade record of simulate_trades
RSITrade(entry_date, exit_date, entry_price, exit_price, position, reason) ==
    [entry_date |-> entry_date, exit_date |-> exit_date,
     entry_price |-> entry_price, exit_price |-> exit_price,
     direction |-> IF position > 0 THEN "Long" ELSE "Short",
     return_pct |-> PnlPct(exit_price, entry_price, position),
     exit_reason |-> reason,
     holding_days |-> exit_date - entry_date]

\* the replay loop of simulate_trades followed by the end-of-period close;
\* i is the 1-based row (= its date), entry_date 0 is None
RECURSIVE SimulateLoop(_, _, _, _, _, _, _)
SimulateLoop(sig, p, i, position, entry_price, entry_date, trades) ==
    IF i > Len(sig.close)
    THEN IF position # 0 /\ entry_date # 0
         THEN Append(trades, RSITrade(entry_date, Len(sig.close), entry_price,
                                      sig.close[Len(sig.close)], position, "End of Period"))
         ELSE trades
    ELSE IF IsNaN(sig.close[i]) \/ IsNaN(sig.raw_signal[i])
    THEN SimulateLoop(sig, p, i + 1, position, entry_price, entry_date, trades)
    ELSE LET current_price == sig.close[i]
             pnl_pct == PnlPct(current_price, entry_price, position)
         IN IF position # 0 /\ pnl_pct >= p.take_profit_pct
            THEN SimulateLoop(sig, p, i + 1, 0, 0, 0,
                     Append(trades, RSITrade(entry_date, i, entry_price, current_price,
                                             position, "Take Profit")))
            ELSE IF position # 0 /\ pnl_pct <= -p.stop_loss_pct
            THEN SimulateLoop(sig, p, i + 1, 0, 0, 0,
                     Append(trades, RSITrade(entry_date, i, entry_price, current_price,
                                             position, "Stop Loss")))
            ELSE IF position = 0 /\ sig.raw_signal[i] # 0
            THEN SimulateLoop(sig, p, i + 1, sig.raw_signal[i], current_price, i, trades)
            ELSE SimulateLoop(sig, p, i + 1, position, entry_price, entry_date, trades)

\* mutation of SimulateTrades: a bar that closes a position goes on to the
\* entry test of the same bar
RECURSIVE SimulateLoopReenter(_, _, _, _, _, _, _)
SimulateLoopReenter(sig, p, i, position, entry_price, entry_date, trades) ==
    IF i > Len(sig.close)
    THEN IF position # 0 /\ entry_date # 0
         THEN Append(trades, RSITrade(entry_date, Len(sig.close), entry_price,
                                      sig.close[Len(sig.close)], position, "End of Period"))
         ELSE trades
    ELSE LET current_price == sig.close[i]
             pnl_pct == PnlPct(current_price, entry_price, position)
             reason == IF position # 0 /\ pnl_pct >= p.take_profit_pct THEN "Take Profit"
                       ELSE IF position # 0 /\ pnl_pct <= -p.stop_loss_pct THEN "Stop Loss"
                       ELSE "none"
             closed == IF reason = "none" THEN trades
                       ELSE Append(trades, RSITrade(entry_date, i, entry_price, current_price,
                                                    position, reason))
             flat == position = 0 \/ reason # "none"
         IN IF flat /\ sig.raw_signal[i] # 0
            THEN SimulateLoopReenter(sig, p, i + 1, sig.raw_signal[i], current_price, i, closed)
            ELSE IF flat
            THEN SimulateLoopReenter(sig, p, i + 1, 0, 0, 0, closed)
            ELSE SimulateLoopReenter(sig, p, i + 1, position, entry_price, entry_date, closed)
SimulateTradesReenter(sig, p) == SimulateLoopReenter(sig, p, 1, 0, 0, 0, <<>>)

\* mutation of SimulateTrades: a position still open after the last bar is dropped
RECURSIVE SimulateLoopNoClose(_, _, _, _, _, _, _)
SimulateLoopNoClose(sig, p, i, position, entry_price, entry_date, trades) ==
    IF i > Len(sig.close) THEN trades
    ELSE LET current_price == sig.close[i]
             pnl_pct == PnlPct(current_price, entry_price, position)
         IN IF position # 0 /\ pnl_pct >= p.take_profit_pct
            THEN SimulateLoopNoClose(sig, p, i + 1, 0, 0, 0,
                     Append(trades, RSITrade(entry_date, i, entry_price, current_price,
                                             position, "Take Profit")))
            ELSE IF position # 0 /\ pnl_pct <= -p.stop_loss_pct
            THEN SimulateLoopNoClose(sig, p, i + 1, 0, 0, 0,
                     Append(trades, RSITrade(entry_date, i, entry_price, current_price,
                                             position, "Stop Loss")))
            ELSE IF position = 0 /\ sig.raw_signal[i] # 0
            THEN SimulateLoopNoClose(sig, p, i + 1, sig.raw_signal[i], current_price, i, trades)
            ELSE SimulateLoopNoClose(sig, p, i + 1, position, entry_price, entry_date, trades)
SimulateTradesNoClose(sig, p) == SimulateLoopNoClose(sig, p, 1, 0, 0, 0, <<>>)

\* mutation of SimulateTrades: the stop loss is tested before the take profit
RECURSIVE SimulateLoopStopFirst(_, _, _, _, _, _, _)
SimulateLoopStopFirst(sig, p, i, position, entry_price, entry_date, trades) ==
    IF i > Len(sig.close)
    THEN IF position # 0 /\ entry_date # 0
         THEN Append(trades, RSITrade(entry_date, Len(sig.close), entry_price,
                                      sig.close[Len(sig.close)], position, "End of Period"))
         ELSE trades
    ELSE LET current_price == sig.close[i]
             pnl_pct == PnlPct(current_price, entry_price, position)
         IN IF position # 0 /\ pnl_pct <= -p.stop_loss_pct
            THEN SimulateLoopStopFirst(sig, p, i + 1, 0, 0, 0,
                     Append(trades, RSITrade(entry_date, i, entry_price, current_price,
                                             position, "Stop Loss")))
            ELSE IF position # 0 /\ pnl_pct >= p.take_profit_pct
            THEN SimulateLoopStopFirst(sig, p, i + 1, 0, 0, 0,
                     Append(trades, RSITrade(entry_date, i, entry_price, current_price,
                                             position, "Take Profit")))
            ELSE IF position = 0 /\ sig.raw_signal[i] # 0
            THEN SimulateLoopStopFirst(sig, p, i + 1, sig.raw_signal[i], current_price, i, trades)
            ELSE SimulateLoopStopFirst(sig, p, i + 1, position, entry_price, entry_date, trades)
SimulateTradesStopFirst(sig, p) == SimulateLoopStopFirst(sig, p, 1, 0, 0, 0, <<>>)

\* RSIMeanReversion.simulate_trades on a signal frame
SimulateTrades(sig, p) == SimulateLoop(sig, p, 1, 0, 0, 0, <<>>)

\* mutation of AttributeTrades: the entry date is not part of the window
RECURSIVE AttributeTradesAfterEntry(_, _, _, _)
AttributeTradesAfterEntry(sig, trades, k, col) ==
    IF k > Len(trades) THEN col
    ELSE LET trade == trades[k]
             direction == IF trade.direction = "Long" THEN 1 ELSE -1
         IN AttributeTradesAfterEntry(sig, trades, k + 1,
                [i \in 1..Len(col) |->
                    IF i > trade.entry_date /\ i <= trade.exit_date
                    THEN (IF IsNaN(sig.returns[i]) THEN NaN ELSE sig.returns[i] * direction)
                    ELSE col[i]])

\* the trade loop of calculate_returns: a later trade overwrites the rows of
\* its window with returns * direction
RECURSIVE AttributeTrades(_, _, _, _)
AttributeTrades(sig, trades, k, col) ==
    IF k > Len(trades) THEN col
    ELSE LET trade == trades[k]
             direction == IF trade.direction = "Long" THEN 1 ELSE -1
         IN AttributeTrades(sig, trades, k + 1,
                [i \in 1..Len(col) |->
                    IF i >= trade.entry_date /\ i <= trade.exit_date
                    THEN (IF IsNaN(sig.returns[i]) THEN NaN ELSE sig.returns[i] * direction)
                    ELSE col[i]])

\* RSIMeanReversion.calculate_returns on a signal frame and the trades in self._trades
RSIReturnsFrame(sig, trades) ==
    LET strategy_return == AttributeTrades(sig, trades, 1, [i \in 1..Len(sig.close) |-> 0])
        cumulative      == CumProd100(strategy_return)
    IN [close                |-> sig.close,
        benchmark_return     |-> sig.returns,
        strategy_return      |-> strategy_return,
        cumulative_strategy  |-> cumulative,
        cumulative_benchmark |-> CumProd100(sig.returns),
        peak                 |-> CumMax(cumulative),
        drawdown             |-> Drawdown(cumulative)]

\* RSIMeanReversion.calculate_metrics once self._returns is set
RSIMetrics(ret, trades) ==
    IF trades = <<>>
    THEN [total_return |-> 0, max_drawdown |-> 0, win_rate |-> Ratio(0, 1),
          num_trades |-> 0, benchmark_return |-> 0, excess_return |-> 0]
    ELSE LET n == Len(ret.cumulative_strategy)
             total_return == ret.cumulative_strategy[n] \div 100 - SCALE
             benchmark_return == ret.cumulative_benchmark[n] \div 100 - SCALE
             num_trades == Len(trades)
             winning == Cardinality({k \in 1..num_trades : trades[k].return_pct > 0})
         IN [total_return |-> total_return,
             max_drawdown |-> ColMin(ret.drawdown),
             win_rate |-> IF num_trades > 0 THEN Ratio(winning, num_trades) ELSE Ratio(0, 1),
             num_trades |-> num_trades,
             benchmark_return |-> benchmark_return,
             excess_return |-> total_return - benchmark_return]

(***************************************************************************)
(* Grid sweep: RSIParameterOptimizer in calculations/rsi_mean_reversion.py *)
(***************************************************************************)
\* one grid point's pipeline raises: calculate_signals rejects an empty price
\* series, and pandas rejects rolling(window=period) for a negative period
PipelineRaises(pr, p) == pr = <<>> \/ p.rsi_period < 0 \/ p.ma_period < 0

\* the metrics of one grid point: calculate_signals, simulate_trades,
\* calculate_returns and calculate_metrics on a new RSIMeanReversion(params)
PipelineMetrics(pr, p) ==
    LET signals == CHOOSE df \in {RSISignalFrame(pr, p)} : TRUE
        trades  == CHOOSE rows \in {SimulateTrades(signals, p)} : TRUE
    IN RSIMetrics(RSIReturnsFrame(signals, trades), trades)

\* the result dict appended for a grid point
ResultRow(p, metrics) ==
    [rsi_period |-> p.rsi_period, rsi_oversold |-> p.rsi_oversold,
     rsi_overbought |-> p.rsi_overbought, ma_period |-> p.ma_period,
     std_dev_mult |-> p.std_dev_multiplier, take_profit |-> p.take_profit_pct,
     stop_loss |-> p.stop_loss_pct, total_return |-> metrics.total_return,
     max_drawdown |-> metrics.max_drawdown, win_rate |-> metrics.win_rate,
     num_trades |-> metrics.num_trades, excess_return |-> metrics.excess_return]

\* getattr(metrics, optimize_metric, 0)
MetricValue(metrics, optimize_metric) ==
    IF optimize_metric = "total_return" THEN metrics.total_return
    ELSE IF optimize_metric = "num_trades" THEN metrics.num_trades
    ELSE IF optimize_metric = "excess_return" THEN metrics.excess_return
    ELSE 0

\* mutation of BeatsBest: a grid point that equals the best so far replaces it
BeatsBestOrEqual(metrics, best_metrics, optimize_metric) ==
    \/ best_metrics = None
    \/ MetricValue(metrics, optimize_metric) >= MetricValue(best_metrics, optimize_metric)

\* self.best_metrics is None or metric_value > getattr(self.best_metrics, ...)
BeatsBest(metrics, best_metrics, optimize_metric) ==
    \/ best_metrics = None
    \/ MetricValue(metrics, optimize_metric) > MetricValue(best_metrics, optimize_metric)

\* mutation of SweepLoop: the first grid point that raises ends the sweep
RECURSIVE SweepLoopAborting(_, _, _, _, _, _, _)
SweepLoopAborting(pr, grid, optimize_metric, i, results, best_params, best_metrics) ==
    IF i > Len(grid) \/ PipelineRaises(pr, grid[i])
    THEN [results |-> results, best_params |-> best_params, best_metrics |-> best_metrics]
    ELSE LET metrics == CHOOSE m \in {PipelineMetrics(pr, grid[i])} : TRUE
             better  == BeatsBest(metrics, best_metrics, optimize_metric)
         IN SweepLoopAborting(pr, grid, optimize_metric, i + 1,
                      Append(results, ResultRow(grid[i], metrics)),
                      IF better THEN grid[i] ELSE best_params,
                      IF better THEN metrics ELSE best_metrics)

\* the loop over param_grid: a grid point whose pipeline raises is skipped
RECURSIVE SweepLoop(_, _, _, _, _, _, _)
SweepLoop(pr, grid, optimize_metric, i, results, best_params, best_metrics) ==
    IF i > Len(grid)
    THEN [results |-> results, best_params |-> best_params, best_metrics |-> best_metrics]
    ELSE IF PipelineRaises(pr, grid[i])
    THEN SweepLoop(pr, grid, optimize_metric, i + 1, results, best_params, best_metrics)
    ELSE LET metrics == CHOOSE m \in {PipelineMetrics(pr, grid[i])} : TRUE
             better  == BeatsBest(metrics, best_metrics, optimize_metric)
         IN SweepLoop(pr, grid, optimize_metric, i + 1,
                      Append(results, ResultRow(grid[i], metrics)),
                      IF better THEN grid[i] ELSE best_params,
                      IF better THEN metrics ELSE best_metrics)

\* mutation of ResetResults: the rows of the previous run are kept
ResetResultsKeepingRows(results) == results

\* self.results = [] at the start of run_optimization
ResetResults(results) == <<>>

\* DataFrame.sort_values(optimize_metric, ascending=False): insertion of one
\* row into rows that are sorted already, rows of equal value in list order
RECURSIVE InsertSorted(_, _, _)
InsertSorted(row, sorted, optimize_metric) ==
    IF sorted = <<>> THEN <<row>>
    ELSE IF row[optimize_metric] > Head(sorted)[optimize_metric]
    THEN <<row>> \o sorted
    ELSE <<Head(sorted)>> \o InsertSorted(row, Tail(sorted), optimize_metric)

RECURSIVE SortValuesDescending(_, _)
SortValuesDescending(rows, optimize_metric) ==
    IF rows = <<>> THEN <<>>
    ELSE InsertSorted(rows[Len(rows)],
                      SortValuesDescending(SubSeq(rows, 1, Len(rows) - 1), optimize_metric),
                      optimize_metric)

(***************************************************************************)
(* SMA trend following: stock_dashboard-2/strategies/sma_letf_strategy.py  *)
(***************************************************************************)
\* SMALETFStrategy.calculate_signals on the downloaded frames: the rows that
\* survive the start_date filter and dropna(), each with its date
SMASignalFrame(signal_data, trade_data, config) ==
    LET n       == Len(signal_data.Close)
        sma     == RollingMean(signal_data.Close, config.sma_period)
        trade   == [i \in 1..n |-> IF i <= Len(trade_data.Close)
                                   THEN trade_data.Close[i] ELSE NaN]
        signal  == [i \in 1..n |->
                       IF ~IsNaN(sma[i]) /\ signal_data.Close[i] * SCALE > sma[i]
                       THEN 1 ELSE 0]
        change  == [i \in 1..n |-> IF i = 1 THEN 0 ELSE signal[i] - signal[i - 1]]
        keep    == {i \in 1..n : i >= config.start_date
                                 /\ ~IsNaN(sma[i]) /\ ~IsNaN(trade[i])}
        rows    == [k \in 1..Cardinality(keep) |->
                       CHOOSE i \in keep : Cardinality({j \in keep : j <= i}) = k]
    IN [date          |-> rows,
        signal_close  |-> [k \in 1..Len(rows) |-> signal_data.Close[rows[k]]],
        trade_close   |-> [k \in 1..Len(rows) |-> trade[rows[k]]],
        sma_200       |-> [k \in 1..Len(rows) |-> sma[rows[k]]],
        signal        |-> [k \in 1..Len(rows) |-> signal[rows[k]]],
        signal_change |-> [k \in 1..Len(rows) |-> change[rows[k]]]]

\* end_date: str = None
NoDate == 0

\* SMALETFStrategy.__init__: self.config is the object the caller passed, and
\* a missing end_date is written into it
SMAInitConfig(config, today) ==
    IF config.end_date = NoDate THEN [config EXCEPT !.end_date = today] ELSE config

\* (1 + risk_free_rate) ** (1/252) - 1 to three decimals, which for the rates
\* of the configurations used here is risk_free_rate / 252 rounded
DailyRf(risk_free_rate) == (2 * risk_free_rate + 252) \div (2 * 252)

\* (1 + col).cumprod(): a NaN row is skipped and stays NaN
RECURSIVE CumProdSkipNaLoop(_, _, _, _)
CumProdSkipNaLoop(col, i, prod, res) ==
    IF i > Len(col) THEN res
    ELSE IF IsNaN(col[i]) THEN CumProdSkipNaLoop(col, i + 1, prod, Append(res, NaN))
    ELSE LET next == (prod * (SCALE + col[i])) \div SCALE
         IN CumProdSkipNaLoop(col, i + 1, next, Append(res, next))
CumProdSkipNa(col) == CumProdSkipNaLoop(col, 1, SCALE, <<>>)

\* initial_capital * (1 + col).cumprod(), in currency units
PortfolioValue(initial_capital, col) ==
    LET prod == CumProdSkipNa(col)
    IN [i \in 1..Len(col) |-> IF IsNaN(prod[i]) THEN NaN
                              ELSE (initial_capital * prod[i]) \div SCALE]

\* Series.cummax() with NaN rows skipped
RECURSIVE CumMaxSkipNaLoop(_, _, _, _)
CumMaxSkipNaLoop(col, i, best, res) ==
    IF i > Len(col) THEN res
    ELSE IF IsNaN(col[i]) THEN CumMaxSkipNaLoop(col, i + 1, best, Append(res, NaN))
    ELSE LET next == IF IsNaN(best) THEN col[i] ELSE Max2(best, col[i])
         IN CumMaxSkipNaLoop(col, i + 1, next, Append(res, next))
CumMaxSkipNa(col) == CumMaxSkipNaLoop(col, 1, NaN, <<>>)

\* (value - peak) / peak * 100
DrawdownPct(value, peak) ==
    [i \in 1..Len(value) |-> IF IsNaN(value[i]) \/ IsNaN(peak[i]) THEN NaN
                             ELSE ((value[i] - peak[i]) * 100 * SCALE) \div peak[i]]

\* mutation of SMAStrategyReturn: the signal of the same row decides
SMAStrategyReturnSameRow(signal, trade_return, daily_rf) ==
    [i \in 1..Len(signal) |-> IF signal[i] = 1 THEN trade_return[i] ELSE daily_rf]

\* np.where(df['signal'].shift(1) == 1, df['trade_return'], daily_rf)
SMAStrategyReturn(signal, trade_return, daily_rf) ==
    [i \in 1..Len(signal) |->
        IF i > 1 /\ signal[i - 1] = 1 THEN trade_return[i] ELSE daily_rf]

\* SMALETFStrategy.run_backtest on the frame calculate_signals returns
SMABacktestFrame(df, config) ==
    LET trade_return    == PctChange(df.trade_close, 1)
        signal_return   == PctChange(df.signal_close, 1)
        strategy_return == SMAStrategyReturn(df.signal, trade_return,
                                             DailyRf(config.risk_free_rate))
        strategy_value  == PortfolioValue(config.initial_capital, strategy_return)
        bh_letf_value   == PortfolioValue(config.initial_capital, trade_return)
        bh_index_value  == PortfolioValue(config.initial_capital, signal_return)
        strategy_peak   == CumMaxSkipNa(strategy_value)
        bh_letf_peak    == CumMaxSkipNa(bh_letf_value)
    IN [date |-> df.date, signal_close |-> df.signal_close, trade_close |-> df.trade_close,
        sma_200 |-> df.sma_200, signal |-> df.signal, signal_change |-> df.signal_change,
        trade_return |-> trade_return, signal_return |-> signal_return,
        strategy_return |-> strategy_return,
        bh_letf_return |-> trade_return, bh_index_return |-> signal_return,
        strategy_value |-> strategy_value, bh_letf_value |-> bh_letf_value,
        bh_index_value |-> bh_index_value,
        strategy_peak |-> strategy_peak,
        strategy_drawdown |-> DrawdownPct(strategy_value, strategy_peak),
        bh_letf_peak |-> bh_letf_peak,
        bh_letf_drawdown |-> DrawdownPct(bh_letf_value, bh_letf_peak)]

(***************************************************************************)
(* Inputs                                                                  *)
(***************************************************************************)
TSMTailLen == 4
RSIBars == 4
SMABars == 4

TSMSteps == {-10, 0, 20}
RSILevels == {94, 95, 100, 106}
SMALevels == {95, 100, 105}

\* price series long enough for one lookback month: a flat first month at
\* 100 and TSMTailLen free bars after it, each one step away from the last
TSMPriceSeries ==
    {[i \in 1..(TRADING_DAYS_PER_MONTH + TSMTailLen) |->
         IF i <= TRADING_DAYS_PER_MONTH THEN 100
         ELSE 100 + SumSeq(SubSeq(steps, 1, i - TRADING_DAYS_PER_MONTH))] :
     steps \in [1..TSMTailLen -> TSMSteps]}

RSIPriceSeries == [1..RSIBars -> RSILevels]

\* what yf.download can return: bars of two instruments, or two empty frames
\* the traded instrument moves twice as far from 100 as the signal instrument
Leveraged(s) == [i \in 1..Len(s) |-> 100 + 2 * (s[i] - 100)]

SMADownloads ==
    {[signal |-> [Close |-> s], trade |-> [Close |-> Leveraged(s)]] :
        s \in [1..SMABars -> SMALevels]}
    \cup {[signal |-> [Close |-> <<>>], trade |-> [Close |-> <<>>]]}

TSMParameterSet ==
    {[lookback_months |-> 1, holding_period_days |-> h, volatility_window |-> 2,
      volatility_target |-> v[2], enable_volatility_scaling |-> v[1],
      position_type |-> pt] :
        h \in {1, 2, 22},
        v \in {<<TRUE, (15 * SCALE) \div 100>>, <<FALSE, SCALE \div 10>>},
        pt \in {"long_short", "long_cash"}}

RSIParameterSet ==
    {[rsi_period |-> 2, rsi_oversold |-> 30 * SCALE, rsi_overbought |-> 70 * SCALE,
      ma_period |-> 2, std_dev_multiplier |-> SCALE \div 2,
      take_profit_pct |-> x[1] * SCALE, stop_loss_pct |-> x[2] * SCALE,
      position_type |-> pt] :
        x \in {<<5, 2>>, <<0, 0>>, <<50, 50>>},
        pt \in {"long_only", "short_only", "long_short"}}
    \cup
    \* thresholds in the wrong order: oversold above overbought
    {[rsi_period |-> 2, rsi_oversold |-> 70 * SCALE, rsi_overbought |-> 30 * SCALE,
      ma_period |-> 2, std_dev_multiplier |-> SCALE \div 2,
      take_profit_pct |-> 5 * SCALE, stop_loss_pct |-> 2 * SCALE,
      position_type |-> "long_short"]}

\* the configurations a caller builds; the date of a bar is its position
SMAConfigSet ==
    [signal_ticker : {"^GSPC"}, trade_ticker : {"UPRO"}, sma_period : {2},
     initial_capital : {10000}, risk_free_rate : {20, 504},
     start_date : {1, 3}, end_date : {NoDate, SMABars}]

\* datetime.now(): a day after the last downloaded bar
Today == SMABars + 1

\* CONFIGS as the module defines it, with the SMA period of the model's scale
PresetConfigs ==
    [preset \in {"sp500_3x", "nasdaq_3x"} |->
        [signal_ticker |-> IF preset = "sp500_3x" THEN "^GSPC" ELSE "^NDX",
         trade_ticker |-> IF preset = "sp500_3x" THEN "UPRO" ELSE "TQQQ",
         sma_period |-> 2, initial_capital |-> 10000, risk_free_rate |-> 20,
         start_date |-> 1, end_date |-> NoDate]]

\* the command lines of run_backtest.py
MainArgs ==
    [preset : {"sp500_3x", "nasdaq_3x"}, signal : {"", "^GSPC"}, trade : {""},
     sma : {2}, start : {1, 3}, end : {NoDate, SMABars}, capital : {10000, 20000}]

\* drawdown columns handed to _calculate_max_dd_duration: rows at the peak,
\* below it, or undefined
DDLen == 4
DDLevels == {0, -(SCALE \div 10), NaN}
DrawdownSeries ==
    {<<>>} \cup UNION {[1..n -> DDLevels] : n \in 1..DDLen}

\* price series handed to successive calculate_signals calls on one
\* RSIMeanReversion
RerunLevels == {94, 100}
RerunPriceSeries == {s \in [1..RSIBars -> RerunLevels] : s[1] = 94}

\* the trending fixtures of the test suite: TrendBars closes that rise or fall
\* by the same amount every bar
TrendBars == 300
TrendPriceSeries ==
    {[i \in 1..TrendBars |-> 100 + step * (i - 1)] : step \in {1, 2}}
    \cup {[i \in 1..TrendBars |-> 1000 - step * (i - 1)] : step \in {1, 2}}

TrendParameterSet ==
    {[lookback_months |-> lb, holding_period_days |-> h, volatility_window |-> 21,
      volatility_target |-> SCALE \div 10, enable_volatility_scaling |-> vs,
      position_type |-> "long_cash"] :
        lb \in {1, 3}, h \in {1, 5, 21, 70}, vs \in {TRUE, FALSE}}

\* closing prices and parameter grids handed to run_optimization
OptGridLen == 2
OptLevels == {94, 100}
OptPriceSeries == [1..RSIBars -> OptLevels]

\* grid points: two exit settings of one entry rule, and a point whose
\* rsi_period makes its pipeline raise
OptGridPoints ==
    {[rsi_period |-> x[1], rsi_oversold |-> 30 * SCALE, rsi_overbought |-> 70 * SCALE,
      ma_period |-> 2, std_dev_multiplier |-> SCALE \div 2,
      take_profit_pct |-> x[2] * SCALE, stop_loss_pct |-> x[3] * SCALE,
      position_type |-> "long_short"] :
        x \in {<<2, 5, 2>>, <<2, 50, 50>>, <<-1, 5, 2>>}}

\* grids of at most OptGridLen different points, in every order
OptGrids ==
    UNION {{g \in [1..k -> OptGridPoints] : \A i, j \in 1..k : g[i] = g[j] => i = j} :
           k \in 0..OptGridLen}
OptMetrics == {"total_return", "num_trades"}

(***************************************************************************)
(* State machine                                                           *)
(***************************************************************************)
Init ==
    /\ strategy \in {"TSM", "RSI", "SMA"}
    /\ sma_config_created \in (IF strategy = "SMA" THEN SMAConfigSet ELSE {None})
    /\ \/ strategy = "TSM" /\ params \in TSMParameterSet
                           /\ prices \in TSMPriceSeries \cup {<<>>}
       \/ strategy = "RSI" /\ params \in RSIParameterSet
                           /\ prices \in RSIPriceSeries \cup {<<>>}
       \/ strategy = "SMA" /\ params \in {SMAInitConfig(sma_config_created, Today)}
                           /\ prices \in SMADownloads
    /\ tsm_signals = None /\ tsm_returns = None
    /\ rsi_signals = None /\ rsi_trades = None /\ rsi_returns = None
    /\ sma_signal_data = None /\ sma_trade_data = None
    /\ sma_backtest_results = None /\ CONFIGS = PresetConfigs
    /\ opt_results = <<>> /\ opt_results_df = None
    /\ opt_best_params = None /\ opt_best_metrics = None /\ opt_call = None
    /\ opt_runs = 0
    /\ sc_scenarios = <<>> /\ sc_results = <<>> /\ sc_computed_from = <<>>
    /\ last_call = "init" /\ outcome = "ok" /\ result = None

\* the call returned value v
Returns(name, v) == last_call' = name /\ outcome' = "ok" /\ result' = v
\* the call raised ValueError
Raises(name) == last_call' = name /\ outcome' = "ValueError" /\ result' = None

\* a DataFrame built from a list of row dicts
DataFrame(rows) == [rows |-> rows]

\* TimeSeriesMomentum.calculate_signals(prices)
TSM_calculate_signals ==
    /\ strategy = "TSM"
    /\ IF prices = <<>>
       THEN Raises("calculate_signals") /\ UNCHANGED tsm_vars
       ELSE LET df == TSMSignalFrame(prices, params)
            IN /\ tsm_signals' = df
               /\ Returns("calculate_signals", df)
               /\ UNCHANGED tsm_returns
    /\ UNCHANGED <<strategy, prices, params, rsi_vars, sma_vars, opt_vars, sc_vars>>

\* TimeSeriesMomentum.calculate_strategy_returns(): signals_df is None or the
\* frame calculate_signals returned, which is the cached one
TSM_calculate_strategy_returns ==
    /\ strategy = "TSM"
    /\ IF tsm_signals = None
       THEN Raises("calculate_strategy_returns") /\ UNCHANGED tsm_vars
       ELSE LET df == TSMReturnsFrame(tsm_signals, params)
            IN /\ tsm_returns' = df
               /\ Returns("calculate_strategy_returns", df)
               /\ UNCHANGED tsm_signals
    /\ UNCHANGED <<strategy, prices, params, rsi_vars, sma_vars, opt_vars, sc_vars>>

\* TimeSeriesMomentum.calculate_performance_metrics()
TSM_calculate_performance_metrics ==
    /\ strategy = "TSM"
    /\ IF tsm_returns = None
       THEN Raises("calculate_performance_metrics")
       ELSE Returns("calculate_performance_metrics", TSMMetrics(tsm_returns, tsm_signals))
    /\ UNCHANGED <<strategy, prices, params, tsm_vars, rsi_vars, sma_vars, opt_vars, sc_vars>>

\* TimeSeriesMomentum.generate_trade_log()
TSM_generate_trade_log ==
    /\ strategy = "TSM"
    /\ IF tsm_signals = None
       THEN Returns("generate_trade_log", DataFrame(<<>>))
       ELSE Returns("generate_trade_log", DataFrame(TSMTradeLog(tsm_signals)))
    /\ UNCHANGED <<strategy, prices, params, tsm_vars, rsi_vars, sma_vars, opt_vars, sc_vars>>

\* TimeSeriesMomentum._calculate_max_dd_duration(drawdown)
TSM_calculate_max_dd_duration ==
    /\ strategy = "TSM"
    /\ \E drawdown \in DrawdownSeries :
          Returns("_calculate_max_dd_duration",
                  [drawdown |-> drawdown, duration |-> MaxDDDuration(drawdown)])
    /\ UNCHANGED <<strategy, prices, params, tsm_vars, rsi_vars, sma_vars, opt_vars, sc_vars>>

\* RSIMeanReversion.calculate_signals(prices)
RSI_calculate_signals ==
    /\ strategy = "RSI"
    /\ IF prices = <<>>
       THEN Raises("calculate_signals") /\ UNCHANGED rsi_vars
       ELSE LET df == RSISignalFrame(prices, params)
            IN /\ rsi_signals' = df
               /\ Returns("calculate_signals", df)
               /\ UNCHANGED <<rsi_trades, rsi_returns>>
    /\ UNCHANGED <<strategy, prices, params, tsm_vars, sma_vars, opt_vars, sc_vars>>

\* RSIMeanReversion.calculate_signals(prices) with a price series of the
\* caller's choice, which may differ from the one of an earlier call
RSI_calculate_signals_new_prices ==
    /\ strategy = "RSI"
    /\ \E pr \in RerunPriceSeries :
          \E df \in {RSISignalFrame(pr, params)} :
             /\ prices' = pr
             /\ rsi_signals' = df
             /\ Returns("calculate_signals", df)
             /\ UNCHANGED <<rsi_trades, rsi_returns>>
    /\ UNCHANGED <<strategy, params, tsm_vars, sma_vars, opt_vars, sc_vars>>

\* RSIMeanReversion.simulate_trades()
RSI_simulate_trades ==
    /\ strategy = "RSI"
    /\ IF rsi_signals = None
       THEN Raises("simulate_trades") /\ UNCHANGED rsi_vars
       ELSE LET df == DataFrame(SimulateTrades(rsi_signals, params))
            IN /\ rsi_trades' = df
               /\ Returns("simulate_trades", df)
               /\ UNCHANGED <<rsi_signals, rsi_returns>>
    /\ UNCHANGED <<strategy, prices, params, tsm_vars, sma_vars, opt_vars, sc_vars>>

\* self._trades is None or self._trades.empty
NoTrades(trades) == trades = None \/ trades = DataFrame(<<>>)

\* RSIMeanReversion.calculate_returns(): simulate_trades runs first when no
\* trades are cached, and its ValueError propagates
RSI_calculate_returns ==
    /\ strategy = "RSI"
    /\ IF NoTrades(rsi_trades) /\ rsi_signals = None
       THEN Raises("calculate_returns") /\ UNCHANGED rsi_vars
       ELSE LET trades == IF NoTrades(rsi_trades)
                          THEN DataFrame(SimulateTrades(rsi_signals, params))
                          ELSE rsi_trades
                df == RSIReturnsFrame(rsi_signals, trades.rows)
            IN /\ rsi_trades' = trades
               /\ rsi_returns' = df
               /\ Returns("calculate_returns", df)
               /\ UNCHANGED rsi_signals
    /\ UNCHANGED <<strategy, prices, params, tsm_vars, sma_vars, opt_vars, sc_vars>>

\* RSIMeanReversion.calculate_metrics(): calculate_returns runs first when no
\* returns are cached
RSI_calculate_metrics ==
    /\ strategy = "RSI"
    /\ IF rsi_returns = None /\ NoTrades(rsi_trades) /\ rsi_signals = None
       THEN Raises("calculate_metrics") /\ UNCHANGED rsi_vars
       ELSE LET trades == IF rsi_returns = None /\ NoTrades(rsi_trades)
                          THEN DataFrame(SimulateTrades(rsi_signals, params))
                          ELSE rsi_trades
                ret    == IF rsi_returns = None
                          THEN RSIReturnsFrame(rsi_signals, trades.rows)
                          ELSE rsi_returns
            IN /\ rsi_trades' = trades
               /\ rsi_returns' = ret
               /\ Returns("calculate_metrics", RSIMetrics(ret, trades.rows))
               /\ UNCHANGED rsi_signals
    /\ UNCHANGED <<strategy, prices, params, tsm_vars, sma_vars, opt_vars, sc_vars>>

\* SMALETFStrategy.fetch_data(): stores what the download returns
SMA_fetch_data ==
    /\ strategy = "SMA" /\ last_call # "main"
    /\ sma_signal_data' = prices.signal
    /\ sma_trade_data' = prices.trade
    /\ Returns("fetch_data", prices)
    /\ UNCHANGED <<strategy, prices, params, tsm_vars, rsi_vars, opt_vars, sc_vars,
                   sma_backtest_results, sma_config_created, CONFIGS>>

\* SMALETFStrategy.calculate_signals(): fetches first when no data is loaded
SMA_calculate_signals ==
    /\ strategy = "SMA" /\ last_call # "main"
    /\ LET signal_data == IF sma_signal_data = None THEN prices.signal ELSE sma_signal_data
           trade_data  == IF sma_signal_data = None THEN prices.trade ELSE sma_trade_data
       IN /\ sma_signal_data' = signal_data
          /\ sma_trade_data' = trade_data
          /\ Returns("calculate_signals",
                     SMASignalFrame(signal_data, trade_data, params))
    /\ UNCHANGED <<strategy, prices, params, tsm_vars, rsi_vars, opt_vars, sc_vars,
                   sma_backtest_results, sma_config_created, CONFIGS>>

\* SMALETFStrategy.run_backtest(): calculate_signals, then the return and
\* value columns
SMA_run_backtest ==
    /\ strategy = "SMA" /\ last_call # "main"
    /\ LET signal_data == IF sma_signal_data = None THEN prices.signal ELSE sma_signal_data
           trade_data  == IF sma_signal_data = None THEN prices.trade ELSE sma_trade_data
       IN \E df \in {SMABacktestFrame(SMASignalFrame(signal_data, trade_data, params),
                                      params)} :
             /\ sma_signal_data' = signal_data
             /\ sma_trade_data' = trade_data
             /\ sma_backtest_results' = df
             /\ Returns("run_backtest", df)
    /\ UNCHANGED <<strategy, prices, params, tsm_vars, rsi_vars, opt_vars, sc_vars,
                   sma_config_created, CONFIGS>>

\* the configuration main() of run_backtest.py builds or picks: a custom one
\* from the arguments, or the preset object with its fields overwritten
MainConfig(args, presets) ==
    IF args.signal # "" \/ args.trade # ""
    THEN [signal_ticker |-> IF args.signal # "" THEN args.signal ELSE "^GSPC",
          trade_ticker |-> IF args.trade # "" THEN args.trade ELSE "UPRO",
          sma_period |-> args.sma, initial_capital |-> args.capital,
          risk_free_rate |-> 20, start_date |-> args.start, end_date |-> args.end]
    ELSE [presets[args.preset] EXCEPT
              !.initial_capital = args.capital,
              !.start_date = args.start,
              !.end_date = IF args.end # NoDate THEN args.end ELSE @]

\* main() of run_backtest.py in a new process: picks the configuration,
\* constructs the strategy, fetches the data and runs the backtest; the
\* strategy object is local to main
RB_main ==
    /\ strategy = "SMA" /\ last_call = "init"
    /\ \E args \in MainArgs :
          LET custom == args.signal # "" \/ args.trade # ""
              config == SMAInitConfig(MainConfig(args, CONFIGS), Today)
          IN /\ params' = config
             /\ sma_config_created' = IF custom THEN MainConfig(args, CONFIGS)
                                      ELSE CONFIGS[args.preset]
             /\ CONFIGS' = IF custom THEN CONFIGS
                           ELSE [CONFIGS EXCEPT ![args.preset] = config]
             /\ sma_signal_data' = prices.signal
             /\ sma_trade_data' = prices.trade
             /\ sma_backtest_results' =
                    SMABacktestFrame(SMASignalFrame(prices.signal, prices.trade, config),
                                     config)
             /\ Returns("main", None)
    /\ UNCHANGED <<strategy, prices, tsm_vars, rsi_vars, opt_vars, sc_vars>>

\* RSIParameterOptimizer.run_optimization(prices, param_grid, optimize_metric)
OPT_run_optimization ==
    /\ strategy = "OPT"
    /\ \E grid \in OptGrids, optimize_metric \in OptMetrics :
          \E sweep \in {SweepLoop(prices, grid, optimize_metric, 1,
                                  ResetResults(opt_results),
                                  opt_best_params, opt_best_metrics)} :
          LET df == DataFrame(SortValuesDescending(sweep.results, optimize_metric))
          IN /\ opt_results' = sweep.results
             /\ opt_results_df' = df
             /\ opt_best_params' = sweep.best_params
             /\ opt_best_metrics' = sweep.best_metrics
             /\ opt_call' = [param_grid |-> grid, optimize_metric |-> optimize_metric]
             /\ opt_runs' = Min2(opt_runs + 1, 2)
             /\ Returns("run_optimization", df)
    /\ UNCHANGED <<strategy, prices, params, tsm_vars, rsi_vars, sma_vars, sc_vars>>

Next ==
    \/ TSM_calculate_signals
    \/ TSM_calculate_strategy_returns
    \/ TSM_calculate_performance_metrics
    \/ TSM_generate_trade_log
    \/ RSI_calculate_signals
    \/ RSI_simulate_trades
    \/ RSI_calculate_returns
    \/ RSI_calculate_metrics
    \/ SMA_fetch_data
    \/ SMA_calculate_signals
    \/ SMA_run_backtest
    \/ RB_main

Spec == Init /\ [][Next]_vars

\* a freshly constructed RSIParameterOptimizer and the price series its
\* caller sweeps
OptInit ==
    /\ strategy = "OPT" /\ params = None /\ sma_config_created = None
    /\ prices \in OptPriceSeries \cup {<<>>}
    /\ tsm_signals = None /\ tsm_returns = None
    /\ rsi_signals = None /\ rsi_trades = None /\ rsi_returns = None
    /\ sma_signal_data = None /\ sma_trade_data = None
    /\ sma_backtest_results = None /\ CONFIGS = PresetConfigs
    /\ opt_results = <<>> /\ opt_results_df = None
    /\ opt_best_params = None /\ opt_best_metrics = None /\ opt_call = None
    /\ opt_runs = 0
    /\ sc_scenarios = <<>> /\ sc_results = <<>> /\ sc_computed_from = <<>>
    /\ last_call = "init" /\ outcome = "ok" /\ result = None

OptNext == OPT_run_optimization

\* an RSIMeanReversion that is reused for several price series
RerunInit ==
    /\ strategy = "RSI" /\ prices \in RerunPriceSeries
    /\ params \in {p \in RSIParameterSet :
                       p.position_type = "long_short" /\ p.rsi_oversold < p.rsi_overbought}
    /\ sma_config_created = None
    /\ tsm_signals = None /\ tsm_returns = None
    /\ rsi_signals = None /\ rsi_trades = None /\ rsi_returns = None
    /\ sma_signal_data = None /\ sma_trade_data = None
    /\ sma_backtest_results = None /\ CONFIGS = PresetConfigs
    /\ opt_results = <<>> /\ opt_results_df = None
    /\ opt_best_params = None /\ opt_best_metrics = None /\ opt_call = None
    /\ opt_runs = 0
    /\ sc_scenarios = <<>> /\ sc_results = <<>> /\ sc_computed_from = <<>>
    /\ last_call = "init" /\ outcome = "ok" /\ result = None

RerunNext ==
    \/ RSI_calculate_signals_new_prices
    \/ RSI_simulate_trades
    \/ RSI_calculate_returns

RerunSpec == RerunInit /\ [][RerunNext]_vars

\* a TimeSeriesMomentum whose drawdown helper is applied to a column
DDInit ==
    /\ strategy = "TSM" /\ prices = <<>>
    /\ params \in {p \in TSMParameterSet :
                       p.holding_period_days = 1 /\ p.position_type = "long_cash"}
    /\ sma_config_created = None
    /\ tsm_signals = None /\ tsm_returns = None
    /\ rsi_signals = None /\ rsi_trades = None /\ rsi_returns = None
    /\ sma_signal_data = None /\ sma_trade_data = None
    /\ sma_backtest_results = None /\ CONFIGS = PresetConfigs
    /\ opt_results = <<>> /\ opt_results_df = None
    /\ opt_best_params = None /\ opt_best_metrics = None /\ opt_call = None
    /\ opt_runs = 0
    /\ sc_scenarios = <<>> /\ sc_results = <<>> /\ sc_computed_from = <<>>
    /\ last_call = "init" /\ outcome = "ok" /\ result = None

DDNext == TSM_calculate_max_dd_duration

DDSpec == DDInit /\ [][DDNext]_vars

\* a TimeSeriesMomentum in long_cash mode and a trending price series
TrendInit ==
    /\ strategy = "TSM" /\ params \in TrendParameterSet /\ prices \in TrendPriceSeries
    /\ sma_config_created = None
    /\ tsm_signals = None /\ tsm_returns = None
    /\ rsi_signals = None /\ rsi_trades = None /\ rsi_returns = None
    /\ sma_signal_data = None /\ sma_trade_data = None
    /\ sma_backtest_results = None /\ CONFIGS = PresetConfigs
    /\ opt_results = <<>> /\ opt_results_df = None
    /\ opt_best_params = None /\ opt_best_metrics = None /\ opt_call = None
    /\ opt_runs = 0
    /\ sc_scenarios = <<>> /\ sc_results = <<>> /\ sc_computed_from = <<>>
    /\ last_call = "init" /\ outcome = "ok" /\ result = None

TrendNext == TSM_calculate_signals

TrendSpec == TrendInit /\ [][TrendNext]_vars

OptSpec == OptInit /\ [][OptNext]_vars

(***************************************************************************)
(* ScenarioComparison of calculations/momentum_strategy.py.  A Python dict *)
(* is the sequence of its items in insertion order.                        *)
(***************************************************************************)
\* key in d
DictHas(d, key) == \E i \in 1..Len(d) : d[i].key = key

\* d[key]
DictGet(d, key) == d[CHOOSE i \in 1..Len(d) : d[i].key = key].value

\* d[key] = value: a key that exists keeps its place
DictSet(d, key, value) ==
    IF DictHas(d, key)
    THEN [i \in 1..Len(d) |-> IF d[i].key = key THEN [key |-> key, value |-> value]
                              ELSE d[i]]
    ELSE Append(d, [key |-> key, value |-> value])

ScenarioNames == {"Scenario A", "Scenario B"}

\* the parameter sets a caller compares
ScenarioParameterSet ==
    {p \in TSMParameterSet : p.holding_period_days = 1 /\ ~p.enable_volatility_scaling}

\* the price series handed to run_all: a flat month, then a steady rise, a
\* steady fall or no move
ScenarioPriceSeries ==
    {s \in TSMPriceSeries :
        \A i \in (TRADING_DAYS_PER_MONTH + 1)..(Len(s) - 1) :
            s[i + 1] - s[i] = s[TRADING_DAYS_PER_MONTH + 1] - s[TRADING_DAYS_PER_MONTH]}

\* the metrics get_best_scenario is asked to rank by
ScenarioMetrics == {"total_return", "num_trades"}

\* the loop of run_all over self.scenarios.items()
RECURSIVE RunAllLoop(_, _, _, _, _, _)
RunAllLoop(pr, scenarios, i, results, computed_from, results_data) ==
    IF i > Len(scenarios)
    THEN [results |-> results, computed_from |-> computed_from,
          results_data |-> results_data]
    ELSE LET name == scenarios[i].key
             p == scenarios[i].value
         IN \* signals, returns and metrics of one TimeSeriesMomentum(params)
            LET signals == CHOOSE df \in {TSMSignalFrame(pr, p)} : TRUE
                returns == CHOOSE df \in {TSMReturnsFrame(signals, p)} : TRUE
                metrics == CHOOSE m \in {TSMMetrics(returns, signals)} : TRUE
            IN RunAllLoop(pr, scenarios, i + 1,
                          DictSet(results, name, metrics),
                          DictSet(computed_from, name, p),
                          Append(results_data,
                                 [Szenario |-> name,
                                  Lookback |-> p.lookback_months,
                                  Holding |-> p.holding_period_days,
                                  VolScaling |-> p.enable_volatility_scaling,
                                  Trades |-> metrics.num_trades]))

\* max(self.results.keys(), key=...): the first key in dict order whose
\* metric is the greatest
BestName(results, metric) ==
    results[CHOOSE i \in 1..Len(results) :
                /\ \A j \in 1..Len(results) :
                      results[j].value[metric] <= results[i].value[metric]
                /\ \A j \in 1..(i - 1) :
                      results[j].value[metric] < results[i].value[metric]].key

\* ScenarioComparison.add_scenario(name, params)
SC_add_scenario ==
    /\ strategy = "SC"
    /\ \E name \in ScenarioNames, p \in ScenarioParameterSet :
          /\ sc_scenarios' = DictSet(sc_scenarios, name, p)
          /\ Returns("add_scenario", None)
    /\ UNCHANGED <<strategy, prices, params, sc_results, sc_computed_from,
                   tsm_vars, rsi_vars, sma_vars, opt_vars>>

\* ScenarioComparison.run_all(prices)
SC_run_all ==
    /\ strategy = "SC"
    /\ \E pr \in ScenarioPriceSeries :
          \E run \in {RunAllLoop(pr, sc_scenarios, 1, sc_results, sc_computed_from,
                                 <<>>)} :
              /\ prices' = pr
              /\ sc_results' = run.results
              /\ sc_computed_from' = run.computed_from
              /\ Returns("run_all", DataFrame(run.results_data))
    /\ UNCHANGED <<strategy, params, sc_scenarios, tsm_vars, rsi_vars, sma_vars, opt_vars>>

\* ScenarioComparison.get_best_scenario(metric); the returned pair is kept
\* with the metric it was asked for
SC_get_best_scenario ==
    /\ strategy = "SC"
    /\ \E metric \in ScenarioMetrics :
          IF sc_results = <<>>
          THEN Returns("get_best_scenario",
                       [metric |-> metric, best_name |-> None, params |-> None])
          ELSE LET best_name == BestName(sc_results, metric)
               IN Returns("get_best_scenario",
                          [metric |-> metric, best_name |-> best_name,
                           params |-> DictGet(sc_scenarios, best_name)])
    /\ UNCHANGED <<strategy, prices, params, sc_vars, tsm_vars, rsi_vars, sma_vars,
                   opt_vars>>

\* a ScenarioComparison() with no scenario and no result
ScenarioInit ==
    /\ strategy = "SC" /\ params = None /\ sma_config_created = None
    /\ prices = <<>>
    /\ tsm_signals = None /\ tsm_returns = None
    /\ rsi_signals = None /\ rsi_trades = None /\ rsi_returns = None
    /\ sma_signal_data = None /\ sma_trade_data = None
    /\ sma_backtest_results = None /\ CONFIGS = PresetConfigs
    /\ opt_results = <<>> /\ opt_results_df = None
    /\ opt_best_params = None /\ opt_best_metrics = None /\ opt_call = None
    /\ opt_runs = 0
    /\ sc_scenarios = <<>> /\ sc_results = <<>> /\ sc_computed_from = <<>>
    /\ last_call = "init" /\ outcome = "ok" /\ result = None

ScenarioNext == SC_add_scenario \/ SC_run_all \/ SC_get_best_scenario

ScenarioSpec == ScenarioInit /\ [][ScenarioNext]_vars

(***************************************************************************)
(* Properties                                                              *)
(***************************************************************************)
\* the price series that equals pr before day t and is c from day t on
PrefixThenConstant(pr, t, c) == [i \in 1..Len(pr) |-> IF i < t THEN pr[i] ELSE c]


\* C1: no look-ahead.  For every day t, signal(t) and position_size(t) of the
\* frame calculate_signals returned equal those of the frame computed from a
\* price series that agrees on every day before t and differs from day t on;
\* the value of day t is the holding-period-filtered signal of day t-1.
C1_NoLookAhead ==
    (strategy = "TSM" /\ last_call = "calculate_signals" /\ outcome = "ok") =>
        \A held \in {ApplyHoldingPeriod(RawSignal(result.momentum, params.position_type),
                                        params.holding_period_days)} :
        \A t \in 1..Len(prices) :
            \A other \in {TSMSignalFrame(PrefixThenConstant(prices, t, 45), params)} :
                /\ other.signal[t] = result.signal[t]
                /\ other.position_size[t] = result.position_size[t]
                /\ result.signal[t] = IF t = 1 THEN NaN ELSE held[t - 1]

\* a frame whose last day carries a position taken from the day before
C1_Witness ==
    /\ strategy = "TSM" /\ last_call = "calculate_signals" /\ outcome = "ok"
    /\ result.signal[Len(prices)] = 1
    /\ result.position_size[Len(prices)] > 0
    /\ prices[Len(prices)] < prices[Len(prices) - 1]

\* entry <= exit <= next entry for the consecutive records of a trade list
TradesOrdered(rows) ==
    \A k \in 1..Len(rows) :
        /\ rows[k].entry_date <= rows[k].exit_date
        /\ k < Len(rows) => rows[k].exit_date <= rows[k + 1].entry_date

\* at most one trade is open over any step from bar i to bar i + 1
OnePositionAtATime(rows, n) ==
    \A i \in 1..n :
        Cardinality({k \in 1..Len(rows) :
                        rows[k].entry_date <= i /\ i < rows[k].exit_date}) <= 1

\* C2: the trade list of simulate_trades and of generate_trade_log is ordered
\* by entry date and non-overlapping, and never holds two open positions.
C2_TradesNonOverlapping ==
    /\ (strategy = "RSI" /\ rsi_trades # None) =>
            /\ TradesOrdered(rsi_trades.rows)
            /\ OnePositionAtATime(rsi_trades.rows, Len(prices))
    /\ (strategy = "TSM" /\ last_call = "generate_trade_log") =>
            /\ TradesOrdered(result.rows)
            /\ OnePositionAtATime(result.rows, Len(prices))

\* a trade log with a reversal: the second trade opens where the first closes
C2_Witness ==
    /\ strategy = "TSM" /\ last_call = "generate_trade_log"
    /\ Len(result.rows) >= 2
    /\ result.rows[1].exit_date = result.rows[2].entry_date

\* the largest value of rows 1..i of a column
RunningMax(col, i) ==
    CHOOSE m \in {col[j] : j \in 1..i} : \A j \in 1..i : col[j] <= m

\* drawdown = (cumulative - running max) / running max, never positive, and
\* zero at a new maximum
DrawdownOK(ret) ==
    \A i \in 1..Len(ret.drawdown) :
        LET m == RunningMax(ret.cumulative_strategy, i)
        IN /\ ret.drawdown[i] = ((ret.cumulative_strategy[i] - m) * SCALE) \div m
           /\ ret.drawdown[i] <= 0
           /\ ret.cumulative_strategy[i] = m => ret.drawdown[i] = 0

\* C3: in every Returns Frame the drawdown is (cumulative - running maximum)
\* / running maximum, is <= 0 and is 0 at the running maximum; the reported
\* max_drawdown is never positive.
C3_DrawdownNonPositive ==
    /\ tsm_returns # None => DrawdownOK(tsm_returns)
    /\ rsi_returns # None => DrawdownOK(rsi_returns)
    /\ (outcome = "ok" /\ last_call \in {"calculate_performance_metrics", "calculate_metrics"})
            => result.max_drawdown <= 0

\* a metrics record that reports a loss from the peak
C3_Witness ==
    /\ outcome = "ok" /\ last_call = "calculate_performance_metrics"
    /\ result.max_drawdown < 0
    /\ \E i \in 1..Len(tsm_returns.drawdown) :
          i > 1 /\ tsm_returns.drawdown[i] = 0 /\ tsm_returns.drawdown[i - 1] < 0

\* number of rows where the signal column changes: (signal.diff().fillna(0) != 0).sum()
NumSignalChanges(signal) ==
    Cardinality({i \in 1..Len(signal) : SignalChanged(signal, i)})

\* the holding periods of TSMParameterSet
HoldingPeriods == {p.holding_period_days : p \in TSMParameterSet}

\* C4: holding-period monotonicity.  On a fixed price series and otherwise
\* identical parameters, a longer holding_period_days never gives more signal
\* changes than a shorter one.
C4_HoldingPeriodMonotone ==
    (strategy = "TSM" /\ last_call = "calculate_signals" /\ outcome = "ok") =>
        \A h2 \in HoldingPeriods :
            h2 >= params.holding_period_days =>
                \A longer \in {TSMSignalFrame(prices,
                                  [params EXCEPT !.holding_period_days = h2])} :
                    NumSignalChanges(longer.signal) <= NumSignalChanges(result.signal)

\* C5: the first row of cumulative_strategy and of cumulative_benchmark is the
\* base index 100 in every Returns Frame.
C5_CumulativeBase ==
    /\ tsm_returns # None =>
            /\ tsm_returns.cumulative_strategy[1] = 100 * SCALE
            /\ tsm_returns.cumulative_benchmark[1] = 100 * SCALE
    /\ rsi_returns # None =>
            /\ rsi_returns.cumulative_strategy[1] = 100 * SCALE
            /\ rsi_returns.cumulative_benchmark[1] = 100 * SCALE

\* a Returns Frame whose curves have moved away from the base after row 1
C5_Witness ==
    /\ tsm_returns # None
    /\ tsm_returns.cumulative_strategy[Len(prices)] # 100 * SCALE
    /\ tsm_returns.cumulative_benchmark[Len(prices)] # 100 * SCALE
    /\ IsNaN(tsm_returns.strategy_return[1])

\* C6: 0 <= win_rate <= 1 in every metrics record, and win_rate = 0 when the
\* run has no trades.
C6_WinRateBounds ==
    (outcome = "ok" /\ last_call \in {"calculate_performance_metrics", "calculate_metrics"}) =>
        /\ result.win_rate.den > 0
        /\ 0 <= result.win_rate.num
        /\ result.win_rate.num <= result.win_rate.den
        /\ result.num_trades = 0 => result.win_rate.num = 0

\* a TSM metrics record with winning and losing position days
C6_Witness ==
    /\ strategy = "TSM" /\ outcome = "ok" /\ last_call = "calculate_performance_metrics"
    /\ result.num_trades >= 2
    /\ 0 < result.win_rate.num
    /\ result.win_rate.num < result.win_rate.den

\* C7: calculate_signals of every strategy family on an empty price series
\* fails with ValueError, returns no Signal Frame and caches nothing.
C7_EmptyPricesRejected ==
    /\ (strategy \in {"TSM", "RSI"} /\ last_call = "calculate_signals" /\ prices = <<>>) =>
            /\ outcome = "ValueError" /\ result = None
            /\ tsm_signals = None /\ rsi_signals = None
    /\ (strategy = "SMA" /\ last_call = "calculate_signals"
        /\ sma_signal_data.Close = <<>>) =>
            outcome = "ValueError" /\ result = None

\* C8: a downstream stage called before its prerequisite stage has run fails
\* with an error and leaves the cached frames unset.
C8_SequencingErrors ==
    /\ (strategy = "TSM" /\ tsm_signals = None
        /\ last_call \in {"calculate_strategy_returns", "generate_trade_log"}) =>
            outcome = "ValueError" /\ result = None /\ tsm_returns = None
    /\ (strategy = "TSM" /\ tsm_returns = None
        /\ last_call = "calculate_performance_metrics") =>
            outcome = "ValueError" /\ result = None
    /\ (strategy = "RSI" /\ rsi_signals = None
        /\ last_call \in {"simulate_trades", "calculate_returns", "calculate_metrics"}) =>
            /\ outcome = "ValueError" /\ result = None
            /\ rsi_trades = None /\ rsi_returns = None

\* the take-profit / stop-loss conditions of a position (entry price p,
\* direction d) at close c, without rounding: (c/p - 1) * d * 100 against the
\* thresholds
TakeProfitHit(c, p, d, par) == (c - p) * d * 100 * SCALE >= par.take_profit_pct * p
StopLossHit(c, p, d, par)   == (c - p) * d * 100 * SCALE <= (-par.stop_loss_pct) * p

\* direction of a trade record as +1 / -1
DirectionOf(trade) == IF trade.direction = "Long" THEN 1 ELSE -1

\* C9: an open position is closed at the first later bar whose close meets
\* the take-profit or the stop-loss condition, at that bar's close, with the
\* matching exit_reason; nothing else closes or reverses it.  A single long
\* entry followed on the next bar by a rise of at least take_profit_pct gives
\* exactly one Long trade with exit_reason 'Take Profit'.
C9_ExitAtFirstThreshold ==
    (strategy = "RSI" /\ last_call = "simulate_trades" /\ outcome = "ok") =>
        LET rows  == result.rows
            close == rsi_signals.close
            raw   == rsi_signals.raw_signal
            n     == Len(close)
            Hit(i, tr) == \/ TakeProfitHit(close[i], tr.entry_price, DirectionOf(tr), params)
                          \/ StopLossHit(close[i], tr.entry_price, DirectionOf(tr), params)
        IN /\ \A k \in 1..Len(rows) :
                LET tr == rows[k]
                IN /\ tr.entry_price = close[tr.entry_date]
                   /\ raw[tr.entry_date] = DirectionOf(tr)
                   /\ tr.exit_price = close[tr.exit_date]
                   /\ \A i \in (tr.entry_date + 1)..(tr.exit_date - 1) : ~Hit(i, tr)
                   /\ tr.exit_reason = "Take Profit" =>
                         /\ tr.exit_date > tr.entry_date
                         /\ TakeProfitHit(tr.exit_price, tr.entry_price, DirectionOf(tr), params)
                   /\ tr.exit_reason = "Stop Loss" =>
                         /\ tr.exit_date > tr.entry_date
                         /\ StopLossHit(tr.exit_price, tr.entry_price, DirectionOf(tr), params)
                   /\ tr.exit_reason = "End of Period" =>
                         /\ tr.exit_date = n
                         /\ tr.exit_date > tr.entry_date => ~Hit(n, tr)
                   /\ tr.exit_reason \in {"Take Profit", "Stop Loss", "End of Period"}
           /\ \A e \in 1..(n - 1) :
                ( /\ raw[e] = 1
                  /\ \A i \in 1..n : i # e => raw[i] = 0
                  /\ TakeProfitHit(close[e + 1], close[e], 1, params) ) =>
                    /\ Len(rows) = 1
                    /\ rows[1].direction = "Long"
                    /\ rows[1].exit_reason = "Take Profit"
                    /\ rows[1].entry_date = e /\ rows[1].exit_date = e + 1

\* a short position that ignores a raw long signal while open and is closed
\* later by its stop loss
C9_Witness ==
    /\ strategy = "RSI" /\ last_call = "simulate_trades" /\ outcome = "ok"
    /\ \E k \in 1..Len(result.rows) :
          LET tr == result.rows[k]
          IN /\ tr.exit_date > tr.entry_date + 1
             /\ tr.exit_reason \in {"Take Profit", "Stop Loss"}
             /\ \E i \in (tr.entry_date + 1)..(tr.exit_date - 1) :
                   rsi_signals.raw_signal[i] # 0

\* C10: on a bar where the take-profit and the stop-loss condition both hold
\* for the open position, exactly one trade is recorded for that bar and its
\* exit_reason is 'Take Profit'.
C10_TakeProfitBeforeStopLoss ==
    (strategy = "RSI" /\ last_call = "simulate_trades" /\ outcome = "ok") =>
        \A k \in 1..Len(result.rows) :
            LET tr == result.rows[k]
            IN \A i \in (tr.entry_date + 1)..tr.exit_date :
                  ( /\ TakeProfitHit(rsi_signals.close[i], tr.entry_price, DirectionOf(tr), params)
                    /\ StopLossHit(rsi_signals.close[i], tr.entry_price, DirectionOf(tr), params) ) =>
                        /\ i = tr.exit_date
                        /\ tr.exit_reason = "Take Profit"
                        /\ Cardinality({j \in 1..Len(result.rows) :
                                           result.rows[j].exit_date = i}) = 1

\* a position closed on a bar where both conditions hold
C10_Witness ==
    /\ strategy = "RSI" /\ last_call = "simulate_trades" /\ outcome = "ok"
    /\ \E k \in 1..Len(result.rows) :
          LET tr == result.rows[k]
          IN /\ tr.exit_date > tr.entry_date
             /\ TakeProfitHit(tr.exit_price, tr.entry_price, DirectionOf(tr), params)
             /\ StopLossHit(tr.exit_price, tr.entry_price, DirectionOf(tr), params)

\* C11: simulate_trades opens no position on a bar on which it closed one,
\* also when that bar carries a raw signal: consecutive trades satisfy
\* exit_date[i] < entry_date[i+1], and no trade enters on a bar where another exits.
C11_NoReentryOnExitBar ==
    (strategy = "RSI" /\ last_call = "simulate_trades" /\ outcome = "ok") =>
        LET rows == result.rows
        IN /\ \A k \in 1..(Len(rows) - 1) : rows[k].exit_date < rows[k + 1].entry_date
           /\ \A k \in 1..Len(rows) : \A j \in 1..Len(rows) :
                (j # k /\ rows[k].exit_reason # "End of Period") =>
                    rows[j].entry_date # rows[k].exit_date

\* a position closed by a threshold on a bar that carries a raw signal, and a
\* later trade
C11_Witness ==
    /\ strategy = "RSI" /\ last_call = "simulate_trades" /\ outcome = "ok"
    /\ Len(result.rows) >= 2
    /\ result.rows[1].exit_reason \in {"Take Profit", "Stop Loss"}
    /\ rsi_signals.raw_signal[result.rows[1].exit_date] # 0

\* C12: after simulate_trades every position that was opened has exactly one
\* trade record.  Every bar with a raw signal lies inside a recorded trade (it
\* is the entry of one or falls in one that is open), no two records share an
\* entry, and a position open after the last bar is recorded with the last
\* date, the last close and exit_reason 'End of Period'.
C12_EveryEntryRecorded ==
    (strategy = "RSI" /\ last_call = "simulate_trades" /\ outcome = "ok") =>
        LET rows  == result.rows
            close == rsi_signals.close
            raw   == rsi_signals.raw_signal
            n     == Len(close)
        IN /\ \A i \in 1..n :
                raw[i] # 0 =>
                    \E k \in 1..Len(rows) :
                        rows[k].entry_date <= i /\ i <= rows[k].exit_date
           /\ \A k \in 1..Len(rows) : \A j \in 1..Len(rows) :
                rows[j].entry_date = rows[k].entry_date => j = k
           /\ \A k \in 1..Len(rows) :
                rows[k].exit_reason = "End of Period" =>
                    /\ k = Len(rows)
                    /\ rows[k].exit_date = n
                    /\ rows[k].exit_price = close[n]
                    /\ rows[k].entry_price = close[rows[k].entry_date]

\* a closed trade followed by a position that is still open after the last bar
C12_Witness ==
    /\ strategy = "RSI" /\ last_call = "simulate_trades" /\ outcome = "ok"
    /\ Len(result.rows) >= 2
    /\ result.rows[Len(result.rows)].exit_reason = "End of Period"
    /\ result.rows[1].exit_reason # "End of Period"

\* the grid points of the last run_optimization call whose pipeline completed
CompletedPoints ==
    {i \in 1..Len(opt_call.param_grid) : ~PipelineRaises(prices, opt_call.param_grid[i])}

\* the objective value of grid point i of the last call
ObjectiveValue(i) ==
    MetricValue(PipelineMetrics(prices, opt_call.param_grid[i]), opt_call.optimize_metric)

\* best_params and best_metrics are those of the earliest completed grid point
\* that attains the greatest objective value
BestIsFirstMaximum ==
    IF CompletedPoints = {}
    THEN opt_best_params = None /\ opt_best_metrics = None
    ELSE \E i \in CompletedPoints :
            /\ opt_best_params = opt_call.param_grid[i]
            /\ opt_best_metrics = PipelineMetrics(prices, opt_call.param_grid[i])
            /\ \A j \in CompletedPoints :
                  \E vi \in {ObjectiveValue(i)}, vj \in {ObjectiveValue(j)} :
                      /\ vj <= vi
                      /\ j < i => vj < vi

\* C13: run_optimization on a freshly constructed optimizer leaves in
\* best_params and best_metrics the completed grid point with the greatest
\* objective value, the earliest in grid order when several attain it.
C13_BestIsFirstMaximum ==
    (strategy = "OPT" /\ opt_runs = 1) => BestIsFirstMaximum

\* two completed grid points with trades tie on the objective and the first is kept
C13_Witness ==
    /\ strategy = "OPT" /\ opt_runs = 1
    /\ Len(opt_call.param_grid) = 2
    /\ Len(opt_results) = 2
    /\ opt_results[1][opt_call.optimize_metric] = opt_results[2][opt_call.optimize_metric]
    /\ opt_results[1].num_trades >= 1
    /\ opt_best_params = opt_call.param_grid[1]

\* the parameters a result row was computed for are those of grid point p
RowOf(row, p) ==
    /\ row.rsi_period = p.rsi_period /\ row.rsi_oversold = p.rsi_oversold
    /\ row.rsi_overbought = p.rsi_overbought /\ row.ma_period = p.ma_period
    /\ row.std_dev_mult = p.std_dev_multiplier
    /\ row.take_profit = p.take_profit_pct /\ row.stop_loss = p.stop_loss_pct

\* the grid points of the last call that completed, in grid order
CompletedInOrder ==
    LET Completes(p) == ~PipelineRaises(prices, p)
    IN SelectSeq(opt_call.param_grid, Completes)

\* C14: run_optimization returns normally whichever grid points raise: the
\* results hold one row for each grid point that completed, in grid order, and
\* none for a failed one, the results table holds the same rows, and a failed
\* point is never best_params.
C14_FailedPointsSkipped ==
    (strategy = "OPT" /\ last_call = "run_optimization") =>
        /\ outcome = "ok"
        /\ Len(opt_results) = Len(CompletedInOrder)
        /\ \A k \in 1..Len(opt_results) : RowOf(opt_results[k], CompletedInOrder[k])
        /\ Len(opt_results_df.rows) = Len(opt_results)
        /\ {opt_results_df.rows[k] : k \in 1..Len(opt_results)}
               = {opt_results[k] : k \in 1..Len(opt_results)}
        /\ opt_best_params # None => ~PipelineRaises(prices, opt_best_params)

\* a grid whose first point raises and whose second point completes and is the best
C14_Witness ==
    /\ strategy = "OPT" /\ last_call = "run_optimization"
    /\ Len(opt_call.param_grid) = 2
    /\ PipelineRaises(prices, opt_call.param_grid[1])
    /\ Len(opt_results) = 1
    /\ opt_best_params = opt_call.param_grid[2]
    /\ opt_results[1].num_trades >= 1

\* the rows a fresh optimizer computes for the arguments of the last call
FreshRows ==
    SweepLoop(prices, opt_call.param_grid, opt_call.optimize_metric, 1, <<>>, None,
              None).results

\* C15: two runs of run_optimization with the same prices, grid and objective
\* give the same result rows, on the same optimizer (a repeated call leaves
\* results and results_df as they were) and on a fresh one (the rows of any
\* run are those a new optimizer computes).
C15_SweepIdempotent ==
    /\ []((strategy = "OPT" /\ last_call = "run_optimization") => opt_results = FreshRows)
    /\ [][(last_call = "run_optimization" /\ last_call' = "run_optimization"
           /\ opt_call' = opt_call)
             => (opt_results' = opt_results /\ opt_results_df' = opt_results_df)]_vars

\* a later run on a used optimizer: best_params is left from an earlier call
C15_Witness ==
    /\ strategy = "OPT" /\ opt_runs = 2
    /\ Len(opt_results) >= 1
    /\ opt_best_params # None
    /\ \A i \in 1..Len(opt_call.param_grid) : opt_call.param_grid[i] # opt_best_params

\* C18: an RSI parameter set with rsi_oversold >= rsi_overbought is rejected:
\* no strategy object holds one after construction, or calculate_signals with
\* it fails with ValueError, and no Signal Frame is produced from it.
C18_ThresholdOrderValidated ==
    (strategy = "RSI" /\ params.rsi_oversold >= params.rsi_overbought) =>
        /\ rsi_signals = None
        /\ last_call = "calculate_signals" => (outcome = "ValueError" /\ result = None)

\* C19: with zero trades the metrics calculation raises nothing and returns
\* a record whose numeric fields are all 0.
C19_ZeroTradesAllZero ==
    /\ (strategy = "RSI" /\ last_call = "calculate_metrics" /\ rsi_signals # None) =>
          /\ outcome = "ok"
          /\ result.num_trades = 0 =>
                /\ result.total_return = 0 /\ result.max_drawdown = 0
                /\ result.win_rate.num = 0 /\ result.benchmark_return = 0
                /\ result.excess_return = 0
    /\ (strategy = "TSM" /\ last_call = "calculate_performance_metrics"
        /\ tsm_returns # None) =>
          /\ outcome = "ok"
          /\ result.num_trades = 0 =>
                /\ result.total_return = 0 /\ result.max_drawdown = 0
                /\ result.max_drawdown_duration_days = 0
                /\ result.win_rate.num = 0 /\ result.avg_holding_period.num = 0
                /\ result.benchmark_total_return = 0 /\ result.excess_return = 0

\* the risk-on signal of calendar day d, from the signal instrument's closes
\* up to day d only
RiskOnAt(d) ==
    /\ d >= params.sma_period
    /\ sma_signal_data.Close[d] * params.sma_period
           > SumSeq(SubSeq(sma_signal_data.Close, d - params.sma_period + 1, d))

\* the tradeable instrument's return from calendar day d0 to day d1
TradeReturnBetween(d0, d1) ==
    ((sma_trade_data.Close[d1] - sma_trade_data.Close[d0]) * SCALE)
        \div sma_trade_data.Close[d0]

\* C16: in the frame of run_backtest, the strategy return of a row is the
\* tradeable instrument's daily return when the risk-on signal of the previous
\* row, which depends on the signal instrument's closes up to that previous
\* row only, is 1, and the daily risk-free rate otherwise; the first row
\* earns the risk-free rate
C16_BacktestNoLookAhead ==
    (strategy = "SMA" /\ sma_backtest_results # None) =>
        \A df \in {sma_backtest_results} :
            \A t \in 1..Len(df.strategy_return) :
                df.strategy_return[t] =
                    IF t > 1 /\ RiskOnAt(df.date[t - 1])
                    THEN TradeReturnBetween(df.date[t - 1], df.date[t])
                    ELSE DailyRf(params.risk_free_rate)

\* a backtest with a row that is invested because the previous row was risk-on
\* while the row's own signal is risk-off, and with a first row
C16_Witness ==
    /\ strategy = "SMA" /\ last_call = "run_backtest"
    /\ \E t \in 2..Len(result.strategy_return) :
          /\ result.signal[t - 1] = 1 /\ result.signal[t] = 0
          /\ result.strategy_return[t] = result.trade_return[t]
          /\ result.strategy_return[t] # DailyRf(params.risk_free_rate)
    /\ result.strategy_return[1] = DailyRf(params.risk_free_rate)
\* the first value of a column that is not NaN
FirstValid(col) ==
    col[CHOOSE i \in 1..Len(col) : ~IsNaN(col[i]) /\ \A j \in 1..(i - 1) : IsNaN(col[j])]

HasValid(col) == \E i \in 1..Len(col) : ~IsNaN(col[i])

\* C17: in the frame run_backtest returns, the first valid value of
\* strategy_value, of bh_letf_value and of bh_index_value is the configured
\* initial capital
C17_ValuesStartAtCapital ==
    (strategy = "SMA" /\ last_call = "run_backtest" /\ outcome = "ok") =>
        \A col \in {result.strategy_value, result.bh_letf_value, result.bh_index_value} :
            HasValid(col) => FirstValid(col) = params.initial_capital

\* C20: the configuration behind a strategy object has the field values its
\* creator gave it, and the shared presets have the values of the module,
\* after construction, after every pipeline call and after the runner
C20_ConfigNeverMutated ==
    strategy = "SMA" => (params = sma_config_created /\ CONFIGS = PresetConfigs)
\* C21: every row of the TSM signal frame whose signal and position size are
\* defined has a signal in {0, 1} (long_cash) or {-1, 0, 1} (long_short), a
\* position size between 0 and 2.0 with volatility scaling and equal to
\* |signal| without it, and position size 0 where the signal is 0; for every
\* holding period
C21_SignalAndSizeRanges ==
    (strategy = "TSM" /\ tsm_signals # None) =>
        \A i \in 1..Len(tsm_signals.signal) :
            \A signal \in {tsm_signals.signal[i]}, size \in {tsm_signals.position_size[i]} :
                /\ ~IsNaN(signal) =>
                       signal \in (IF params.position_type = "long_cash"
                                   THEN {0, 1} ELSE {-1, 0, 1})
                /\ (~IsNaN(signal) /\ ~IsNaN(size)) =>
                       /\ (params.enable_volatility_scaling =>
                               (0 <= size /\ size <= 2 * SCALE))
                       /\ (~params.enable_volatility_scaling =>
                               size = Abs(signal) * SCALE)
                       /\ (signal = 0 => size = 0)

\* a long_short frame with volatility scaling and a holding period above one
\* day that holds a short row at the 2.0 cap and a flat row of size 0
C21_Witness ==
    /\ strategy = "TSM" /\ tsm_signals # None
    /\ params.position_type = "long_short" /\ params.enable_volatility_scaling
    /\ params.holding_period_days > 1
    /\ \E i, j \in 1..Len(tsm_signals.signal) :
          /\ tsm_signals.signal[i] = -1 /\ tsm_signals.position_size[i] = 2 * SCALE
          /\ tsm_signals.signal[j] = 0 /\ tsm_signals.position_size[j] = 0
StrictlyIncreasing(col) == \A i \in 2..Len(col) : col[i - 1] < col[i]
StrictlyDecreasing(col) == \A i \in 2..Len(col) : col[i - 1] > col[i]

\* the 0-based index after which an uptrend is held long
TrendStart(p) == Max2(p.lookback_months * TRADING_DAYS_PER_MONTH, p.holding_period_days)

\* C22: in long_cash mode the signal of a strictly increasing series is 1 on
\* every day after index max(lookback_months * 21, holding_period_days) and 0
\* on every defined day up to it, and the signal of a strictly decreasing
\* series is 0 on every defined day; on 300 bars with a three-month lookback
\* and the default holding period more than 0.7 of the defined days are
\* long in the uptrend and more than 0.7 are flat in the downtrend
C22_TrendSignals ==
    (strategy = "TSM" /\ tsm_signals # None /\ params.position_type = "long_cash") =>
        \A signal \in {tsm_signals.signal} :
            LET n       == Len(signal)
                defined == {i \in 1..n : ~IsNaN(signal[i])}
                long    == {i \in defined : signal[i] = 1}
                flat    == {i \in defined : signal[i] = 0}
                fixture == n = 300 /\ params.lookback_months = 3
                           /\ params.holding_period_days = 21
            IN /\ StrictlyIncreasing(tsm_signals.close) =>
                    /\ defined = 2..n
                    /\ \A i \in defined :
                          signal[i] = IF i - 1 > TrendStart(params) THEN 1 ELSE 0
                    /\ fixture => 10 * Cardinality(long) > 7 * Cardinality(defined)
               /\ StrictlyDecreasing(tsm_signals.close) =>
                    /\ defined = 2..n
                    /\ \A i \in defined : signal[i] = 0
                    /\ fixture => 10 * Cardinality(flat) > 7 * Cardinality(defined)

\* the uptrend fixture of the test suite has been turned into signals, with
\* flat days before the trend is picked up and long days after it
C22_Witness ==
    /\ strategy = "TSM" /\ tsm_signals # None /\ params.position_type = "long_cash"
    /\ StrictlyIncreasing(tsm_signals.close) /\ Len(tsm_signals.close) = 300
    /\ params.lookback_months = 3 /\ params.holding_period_days = 21
    /\ tsm_signals.signal[64] = 0 /\ tsm_signals.signal[65] = 1
\* the output of _apply_holding_period behind a signal frame: the signal
\* column before its one-day shift (the last row of the output is not kept)
HeldSignal(sig) == [k \in 1..(Len(sig.signal) - 1) |-> sig.signal[k + 1]]

\* the output at the last defined row before row k, 0 before the first one
HeldBefore(out, k) ==
    IF \A j \in 1..(k - 1) : IsNaN(out[j]) THEN 0
    ELSE out[CHOOSE j \in 1..(k - 1) :
                 ~IsNaN(out[j]) /\ \A m \in (j + 1)..(k - 1) : IsNaN(out[m])]

\* the rows where the output takes a new value
HeldChanges(out) == {k \in 1..Len(out) : ~IsNaN(out[k]) /\ out[k] # HeldBefore(out, k)}

\* C23: with a holding period h > 1 the filtered signal is undefined exactly
\* where the raw signal is, takes a new value only at a bar whose raw signal
\* is that value, and any two bars where it takes a new value are at least h
\* bars apart; everywhere else it keeps the value it had (0 at the start)
C23_HoldingPeriodSpacing ==
    (strategy = "TSM" /\ tsm_signals # None /\ params.holding_period_days > 1) =>
        \A out \in {HeldSignal(tsm_signals)},
           raw \in {RawSignal(tsm_signals.momentum, params.position_type)} :
            \A changes \in {HeldChanges(out)} :
                /\ \A k \in 1..Len(out) : IsNaN(out[k]) <=> IsNaN(raw[k])
                /\ \A k \in changes : out[k] = raw[k]
                /\ \A k1, k2 \in changes :
                       k1 < k2 => k2 - k1 >= params.holding_period_days

\* a frame where the filter accepts a change, holds it against a different
\* raw signal on the next bar and accepts the next change h bars later
C23_Witness ==
    /\ strategy = "TSM" /\ tsm_signals # None /\ params.holding_period_days = 2
    /\ \E k \in 1..(Len(tsm_signals.signal) - 3) :
          LET out == HeldSignal(tsm_signals)
              raw == RawSignal(tsm_signals.momentum, params.position_type)
          IN /\ k \in HeldChanges(out) /\ (k + 2) \in HeldChanges(out)
             /\ raw[k + 1] # out[k + 1] /\ out[k + 1] = out[k]
\* the lengths of the contiguous runs of rows below the peak
DrawdownRuns(drawdown) ==
    {b - a + 1 : <<a, b>> \in
        {r \in (1..Len(drawdown)) \X (1..Len(drawdown)) :
            r[1] <= r[2] /\ \A i \in r[1]..r[2] : ~IsNaN(drawdown[i]) /\ drawdown[i] < 0}}

\* C24: _calculate_max_dd_duration returns the number of rows of the longest
\* contiguous run of rows with drawdown < 0, wherever the run lies, and 0
\* when no row has drawdown < 0
C24_LongestDrawdownRun ==
    (strategy = "TSM" /\ last_call = "_calculate_max_dd_duration") =>
        \A runs \in {DrawdownRuns(result.drawdown)} :
            /\ runs = {} => result.duration = 0
            /\ runs # {} => (result.duration \in runs
                             /\ \A len \in runs : len <= result.duration)

\* the longest run starts at the first row, a shorter one ends at the last row
C24_Witness ==
    /\ strategy = "TSM" /\ last_call = "_calculate_max_dd_duration"
    /\ Len(result.drawdown) >= 4
    /\ result.drawdown[1] < 0 /\ result.drawdown[2] < 0 /\ result.drawdown[3] = 0
    /\ result.drawdown[Len(result.drawdown)] < 0
    /\ ~IsNaN(result.drawdown[1]) /\ ~IsNaN(result.drawdown[2])
    /\ ~IsNaN(result.drawdown[Len(result.drawdown)])
    /\ result.duration = 2
\* the underlying's return of calendar day i
DailyReturn(i) == IF i = 1 THEN NaN ELSE ((prices[i] - prices[i - 1]) * SCALE) \div prices[i - 1]

\* C25: in the frame of calculate_returns a date inside the window
\* [entry_date, exit_date] of a trade carries the underlying's return of that
\* date, negated for a Short trade, a date outside every window carries 0,
\* and no date lies in the windows of two trades
C25_ReturnsAttributedToTrades ==
    (strategy = "RSI" /\ last_call = "calculate_returns" /\ outcome = "ok") =>
        \A trades \in {rsi_trades.rows}, col \in {result.strategy_return} :
            /\ Len(col) = Len(prices)
            /\ \A i \in 1..Len(col) :
                  LET holding == {k \in 1..Len(trades) :
                                     trades[k].entry_date <= i /\ i <= trades[k].exit_date}
                  IN /\ Cardinality(holding) <= 1
                     /\ holding = {} => col[i] = 0
                     /\ \A k \in holding :
                           col[i] = IF trades[k].direction = "Long"
                                    THEN DailyReturn(i) ELSE -DailyReturn(i)

\* the returns of a Short trade have been attributed, its entry day with a
\* non-zero return, and some day is outside every trade
C25_Witness ==
    /\ strategy = "RSI" /\ last_call = "calculate_returns" /\ outcome = "ok"
    /\ \E k \in 1..Len(rsi_trades.rows) :
          /\ rsi_trades.rows[k].direction = "Short"
          /\ result.strategy_return[rsi_trades.rows[k].entry_date] = -DailyReturn(rsi_trades.rows[k].entry_date)
          /\ DailyReturn(rsi_trades.rows[k].entry_date) # 0
    /\ \E i \in 1..Len(prices) :
          /\ result.strategy_return[i] = 0
          /\ \A k \in 1..Len(rsi_trades.rows) :
                i < rsi_trades.rows[k].entry_date \/ i > rsi_trades.rows[k].exit_date
\* the position the replay of generate_trade_log holds before row i
PositionBefore(signal, i) ==
    IF \A j \in 1..(i - 1) : IsNaN(signal[j]) THEN 0
    ELSE signal[CHOOSE j \in 1..(i - 1) :
                    ~IsNaN(signal[j]) /\ \A m \in (j + 1)..(i - 1) : IsNaN(signal[m])]

\* the rows where the replay enters a position
PositionEntries(signal) ==
    {i \in 1..Len(signal) :
        ~IsNaN(signal[i]) /\ signal[i] # 0 /\ signal[i] # PositionBefore(signal, i)}

\* C26: every position entered during the replay of generate_trade_log has a
\* record in the returned trade log; a position still open at the final bar
\* is closed at that bar
C26_OpenPositionClosedAtEnd ==
    (strategy = "TSM" /\ last_call = "generate_trade_log" /\ tsm_signals # None) =>
        \A entries \in {PositionEntries(tsm_signals.signal)} :
            /\ Len(result.rows) = Cardinality(entries)
            /\ \A e \in entries :
                  \E k \in 1..Len(result.rows) :
                      /\ result.rows[k].entry_date = e
                      /\ result.rows[k].exit_date <= Len(tsm_signals.signal)
\* C27: the frame calculate_returns returns for the current signal frame
\* attributes returns to the trades simulate_trades produces from that signal
\* frame, whatever calls were made on the instance before
C27_ReturnsUseTradesOfSameSignals ==
    (strategy = "RSI" /\ last_call = "calculate_returns" /\ outcome = "ok") =>
        result.strategy_return =
            AttributeTrades(rsi_signals, SimulateTrades(rsi_signals, params), 1,
                            [i \in 1..Len(rsi_signals.close) |-> 0])

\* C28: after any sequence of run_optimization calls on one optimizer,
\* best_params and best_metrics belong to a grid point evaluated in the most
\* recent call: its parameters are a row of that call's results table and its
\* objective value is the maximum of that table
C28_BestBelongsToLastCall ==
    (strategy = "OPT" /\ last_call = "run_optimization" /\ opt_best_params # None) =>
        \E k \in 1..Len(opt_results_df.rows) :
            /\ RowOf(opt_results_df.rows[k], opt_best_params)
            /\ opt_results_df.rows[k][opt_call.optimize_metric]
                   = MetricValue(opt_best_metrics, opt_call.optimize_metric)
            /\ \A j \in 1..Len(opt_results_df.rows) :
                  opt_results_df.rows[j][opt_call.optimize_metric]
                      <= opt_results_df.rows[k][opt_call.optimize_metric]

\* the rows on which the signal frame holds a non-zero position: the signal is
\* defined and is not 0
HeldPositionDays(sig) ==
    {i \in 1..Len(sig.signal) : ~IsNaN(sig.signal[i]) /\ sig.signal[i] # 0}

\* the rows on which signal * returns > 0
WinningDays(sig) ==
    {i \in 1..Len(sig.signal) :
        ~IsNaN(sig.signal[i]) /\ ~IsNaN(sig.returns[i])
        /\ sig.signal[i] * sig.returns[i] > 0}

\* C30: when trades were counted, the TSM win_rate is the number of days with
\* signal * return > 0 divided by the number of days on which a non-zero
\* position is held; a day whose signal is undefined is not a position day
C30_WinRateOverPositionDays ==
    (strategy = "TSM" /\ last_call = "calculate_performance_metrics" /\ outcome = "ok"
     /\ result.num_trades > 0) =>
        \A held \in {Cardinality(HeldPositionDays(tsm_signals))},
           won \in {Cardinality(WinningDays(tsm_signals))} :
            held > 0 => result.win_rate.num * held = won * result.win_rate.den

\* C29: get_best_scenario returns (None, None) when nothing has been run;
\* otherwise it returns a name and parameters such that the stored result of
\* that name was computed from exactly those parameters and its metric value
\* is the maximum over all stored results
C29_BestScenarioMatchesItsResult ==
    (strategy = "SC" /\ last_call = "get_best_scenario") =>
        IF sc_results = <<>>
        THEN result.best_name = None /\ result.params = None
        ELSE /\ DictHas(sc_results, result.best_name)
             /\ DictGet(sc_computed_from, result.best_name) = result.params
             /\ \A j \in 1..Len(sc_results) :
                   sc_results[j].value[result.metric]
                       <= DictGet(sc_results, result.best_name)[result.metric]
====
